---------------------------- MODULE Spec2Model ----------------------------
(***************************************************************************)
(* A model of the CNPJ scraper of src/main.py: the checkpointed batch      *)
(* scheduler (OptimizedCNPJScraper.run / process_batch / process_single)   *)
(* and the provider fallback chain (OptimizedCNPJScraper.scrape_cnpj).     *)
(*                                                                         *)
(* Text that the program inspects character by character (input lines,     *)
(* record fields) is a sequence of one-character strings; text that is     *)
(* only compared and concatenated (source tags, fault texts) is a string.  *)
(***************************************************************************)
EXTENDS Integers, Sequences, FiniteSets, TLC

(***************************************************************************)
(* Bounds of the model.                                                    *)
(***************************************************************************)
\* the longest input file, in lines
MaxInputLines == 3
\* the largest BATCH_SIZE a configuration is drawn with
MaxBatchSize == 2
\* the largest MAX_CONCURRENCY a configuration is drawn with
MaxConcurrency == 2

(***************************************************************************)
(* Text helpers.                                                           *)
(***************************************************************************)
DIGITS == {"0", "1", "2", "3", "4", "5", "6", "7", "8", "9"}

WHITESPACE == {" "}

RECURSIVE LStrip(_)
LStrip(s) == IF s # <<>> /\ Head(s) \in WHITESPACE THEN LStrip(Tail(s)) ELSE s

RECURSIVE RStrip(_)
RStrip(s) ==
    IF s # <<>> /\ s[Len(s)] \in WHITESPACE THEN RStrip(SubSeq(s, 1, Len(s) - 1)) ELSE s

\* str.strip()
Strip(s) == RStrip(LStrip(s))

\* `not s or s.strip() == ""`
IsBlank(s) == s = <<>> \/ Strip(s) = <<>>

\* CNPJ_PATTERN = ^\d{14}$
CNPJ_PATTERN(s) == Len(s) = 14 /\ \A k \in 1..Len(s) : s[k] \in DIGITS

\* validate_cnpj
validate_cnpj(cnpj) == cnpj # <<>> /\ CNPJ_PATTERN(Strip(cnpj))

(***************************************************************************)
(* The input alphabet: two well-formed identifiers, one malformed line.    *)
(***************************************************************************)
CnpjEndingIn(d) == [k \in 1..14 |-> IF k = 14 THEN d ELSE "0"]

CNPJ_A == CnpjEndingIn("1")
CNPJ_B == CnpjEndingIn("2")
BAD_LINE == <<"1", "2", "3", "4">>

InputLines == {CNPJ_A, CNPJ_B, BAD_LINE}

RECURSIVE SeqsUpTo(_, _)
SeqsUpTo(S, n) ==
    IF n = 0 THEN {<<>>}
    ELSE LET shorter == SeqsUpTo(S, n - 1)
         IN  shorter \cup {Append(s, x) : s \in {q \in shorter : Len(q) = n - 1}, x \in S}

Range(s) == {s[k] : k \in 1..Len(s)}

Min(a, b) == IF a < b THEN a ELSE b

(***************************************************************************)
(* State of the batch scheduler.                                           *)
(***************************************************************************)
VARIABLES
    config,            \* BATCH_SIZE, MAX_CONCURRENCY
    input_file,        \* lines of INPUT_FILE
    result_file,       \* record blocks of RESULT_FILE, each named by its CNPJ
    done_file,         \* lines of DONE_FILE
    error_file,        \* lines of ERROR_FILE: <<cnpj, error text>>
    cnpjs,             \* self.cnpjs
    completed_cnpjs,   \* self.completed_cnpjs
    dashboard,         \* total, done, pending, in_progress, errors, terminate_requested
    pending_cnpjs,     \* run: the list the batches are cut from
    run_pc,            \* run: "loop", "gather", "batch_sleep", "finished", "crashed"
    batch_start,       \* run: the loop variable i (1-based)
    task_pc,           \* process_single of pending_cnpjs[t]: its position
    semaphore,         \* process_batch: the semaphore's free slots
    run_start,         \* history: done_file, error_file and result_file lengths and
                       \* completed_cnpjs at the start of this run
    crash_log          \* history: done_file contents at each crash so far

schedVars == <<config, input_file, result_file, done_file, error_file, cnpjs,
               completed_cnpjs, dashboard, pending_cnpjs, run_pc, batch_start,
               task_pc, semaphore, run_start, crash_log>>

(***************************************************************************)
(* State of one call of scrape_cnpj.                                       *)
(***************************************************************************)
VARIABLES
    api_config,        \* the provider enable flags and ENABLE_ADDITIONAL_SCRAPING
    data,              \* scrape_cnpj: the record being built
    api_data,          \* scrape_cnpj: what the last provider called returned
    missing,           \* scrape_cnpj: missing_phone, missing_email
    scrape_pc,         \* scrape_cnpj: the block about to run
    calls,             \* history: the providers and page extractions called, in order
    result_text        \* the blocks save_result appended for this record

chainVars == <<api_config, data, api_data, missing, scrape_pc, calls, result_text>>

VARIABLES
    fetch_config,      \* RETRY_ATTEMPTS, RETRY_DELAY_MIN, CACHE_TTL
    cache,             \* self.cache.cache: key -> (value, timestamp), None for no entry
    clock,             \* time.time()
    request_pc,        \* make_request: "idle", "awaiting", "sleeping", "returned"
    cache_key,         \* make_request: its cache_key
    attempt,           \* make_request: the loop variable
    returned,          \* make_request: what it returned
    outcomes,          \* history: how each attempt of the request ended
    sleeps             \* history: the delays the request slept

fetchVars == <<fetch_config, cache, clock, request_pc, cache_key, attempt, returned,
               outcomes, sleeps>>

(***************************************************************************)
(* State of one call of scrape_cnpj_sites.                                 *)
(***************************************************************************)
VARIABLES
    look_for,          \* look_for_phone, look_for_email
    out,               \* out: "tel" and "email"
    sites_pc,          \* scrape_cnpj_sites: "idle", "launch", "gather", "returned"
    url_pc,            \* process_with_semaphore of each URL: the await it is at
    url_attempt,       \* process_with_semaphore of each URL: the loop variable
    url_semaphore,     \* the semaphore's free slots
    sleeping,          \* the seconds each URL's last asyncio.sleep was called with
    sites_result,      \* what scrape_cnpj_sites returned
    loads,             \* history: the page.goto calls made for each URL
    last_load,         \* history: how each URL's last page.goto ended
    assigned,          \* history: the assignments made to out["tel"] and out["email"]
    refused,           \* history: a page showed a field that `out` already held
    raised             \* history: the exceptions the pages have raised so far

siteVars == <<look_for, out, sites_pc, url_pc, url_attempt, url_semaphore, sleeping,
              sites_result, loads, last_load, assigned, refused, raised>>

(***************************************************************************)
(* State of the process from its start to its exit.                        *)
(***************************************************************************)
VARIABLES
    env,               \* the options of the environment, as _load_config parses them
    start_pc,          \* "load_config", "init_files", "load", "run", "exited"
    exists,            \* which of the result, done and error files are on disk
    exit_status        \* the exit status of the process, once it has exited

startVars == <<env, start_pc, exists, exit_status>>

vars == <<schedVars, chainVars, fetchVars, siteVars, startVars>>

(***************************************************************************)
(* Construction: OptimizedCNPJScraper.__init__ and the prelude of run.     *)
(***************************************************************************)
\* _load_cnpjs without the validation
LoadUnvalidated(file) ==
    SelectSeq([k \in 1..Len(file) |-> Strip(file[k])], LAMBDA l : l # <<>>)

\* _load_cnpjs: strip every line, drop the blank ones, keep the valid ones
_load_cnpjs(file) ==
    LET stripped == [k \in 1..Len(file) |-> Strip(file[k])]
        raw_cnpjs == SelectSeq(stripped, LAMBDA l : l # <<>>)
    IN  SelectSeq(raw_cnpjs, validate_cnpj)

\* _load_completed_cnpjs that finds no checkpoint
LoadNoCheckpoint(file) == {}

\* _load_completed_cnpjs: the set of the non-blank stripped lines
_load_completed_cnpjs(file) == {Strip(file[k]) : k \in 1..Len(file)} \ {<<>>}

\* run without the filter
FilterNothing(list, completed) == list

\* run: pending_cnpjs = [cnpj for cnpj in self.cnpjs if cnpj not in self.completed_cnpjs]
FilterCompleted(list, completed) == SelectSeq(list, LAMBDA c : c \notin completed)

TaskStates == {"pending", "waiting", "scraping", "sleeping",
               "finished", "failed", "skipped", "returned"}

\* positions at which process_single holds a slot of the semaphore
InFlight == {"scraping", "sleeping"}

\* positions at which process_single has returned
Returned == {"finished", "failed", "skipped", "returned"}

\* the memory of a process started on the files as they are
Construct(inp, done) ==
    LET loaded == _load_cnpjs(inp)
        completed == _load_completed_cnpjs(done)
        pend == FilterCompleted(loaded, completed)
    IN  /\ cnpjs' = loaded
        /\ completed_cnpjs' = completed
        /\ dashboard' = [total |-> Len(loaded), done |-> 0, pending |-> Len(pend),
                         in_progress |-> 0, errors |-> 0, terminate_requested |-> FALSE]
        /\ pending_cnpjs' = pend
        /\ run_pc' = "loop"
        /\ batch_start' = 1
        /\ task_pc' = [t \in 1..Len(pend) |-> "pending"]
        /\ semaphore' = 0

\* the state after construction, on the input files and the checkpoints of Files
SchedInit(Files, Checkpoints) ==
    /\ config \in [BATCH_SIZE : 1..MaxBatchSize, MAX_CONCURRENCY : 1..MaxConcurrency]
    /\ input_file \in Files
    /\ done_file \in Checkpoints
    /\ result_file = done_file
    /\ error_file = <<>>
    /\ cnpjs = _load_cnpjs(input_file)
    /\ completed_cnpjs = _load_completed_cnpjs(done_file)
    /\ pending_cnpjs = FilterCompleted(cnpjs, completed_cnpjs)
    /\ dashboard = [total |-> Len(cnpjs), done |-> 0, pending |-> Len(pending_cnpjs),
                    in_progress |-> 0, errors |-> 0, terminate_requested |-> FALSE]
    /\ run_pc = "loop"
    /\ batch_start = 1
    /\ task_pc = [t \in 1..Len(pending_cnpjs) |-> "pending"]
    /\ semaphore = 0
    /\ run_start = [done |-> Len(done_file), errors |-> Len(error_file),
                    results |-> Len(result_file), completed |-> completed_cnpjs]
    /\ crash_log = <<>>

(***************************************************************************)
(* CNPJData (src/main.py 164-176) and what the providers can answer.       *)
(***************************************************************************)
None == [none |-> TRUE]

MEI_UNKNOWN == <<"?">>
SIM == <<"S", "i", "m">>
NAO == <<"N", "a", "o">>
NOT_AVAILABLE == <<"N", "/", "A">>

CNPJData(cnpj, source) ==
    [cnpj |-> cnpj, nome_empresa |-> <<>>, nome_api_puxada |-> <<>>, natureza |-> <<>>,
     situacao |-> <<>>, porte |-> <<>>, mei |-> MEI_UNKNOWN, telefone |-> <<>>,
     email |-> <<>>, source |-> source]

\* the providers, in the order scrape_cnpj tries them
Providers == <<"CNPJa", "BrasilAPI", "ReceitaWS", "CNPJ.ws", "Minha Receita">>

ProviderDigit == <<"1", "2", "3", "4", "5">>

PHONE == <<"1", "1", "9", "8", "7", "6", "5", "4", "3", "2", "1">>
EMAIL == <<"a", "@", "b", ".", "c">>
NATURE == <<"2", "0", "6", "-", "2">>
STATUS == <<"A", "T", "I", "V", "A">>
SIZE == <<"M", "E">>
ISO_DATE == <<"2", "0", "2", "0", "-", "0", "1", "-", "0", "2">>
WEB_PHONE == <<"1", "1", "3", "3", "3", "3", "4", "4", "4", "4">>
WEB_EMAIL == <<"w", "@", "e", ".", "b">>

\* a JSON body with none of the keys an adapter reads
BlankPayload ==
    [nome |-> <<>>, cidade |-> <<>>, estado |-> <<>>, natureza |-> <<>>, situacao |-> <<>>,
     data_situacao |-> <<>>, porte |-> <<>>, telefones |-> <<>>, email |-> <<>>,
     mei |-> FALSE]

\* the JSON bodies provider k answers with: its own name and city, so that the
\* origin of a field can be told
Payloads(k) ==
    LET name == <<"N", ProviderDigit[k]>>
        city == <<"C", ProviderDigit[k]>>
    IN  { BlankPayload,
          [BlankPayload EXCEPT !.nome = name, !.cidade = city],
          [BlankPayload EXCEPT !.natureza = NATURE, !.mei = TRUE],
          [BlankPayload EXCEPT !.nome = <<" ">>, !.situacao = STATUS,
                               !.data_situacao = ISO_DATE, !.email = EMAIL],
          [BlankPayload EXCEPT !.nome = name, !.cidade = city, !.natureza = NATURE],
          [BlankPayload EXCEPT !.nome = name, !.porte = SIZE, !.telefones = <<PHONE>>,
                               !.email = EMAIL, !.mei = TRUE],
          [BlankPayload EXCEPT !.nome = name, !.cidade = city, !.natureza = NATURE,
                               !.telefones = <<PHONE>>, !.email = EMAIL] }

\* what make_request hands an adapter: a JSON body, or None
Responses(k) == Payloads(k) \cup {None}

(***************************************************************************)
(* The provider adapters (src/main.py 545-762) and their helpers.          *)
(***************************************************************************)
RECURSIVE Join(_, _)
Join(sep, parts) ==
    IF parts = <<>> THEN <<>>
    ELSE IF Len(parts) = 1 THEN parts[1]
    ELSE parts[1] \o sep \o Join(sep, Tail(parts))

DESDE == <<" ", "d", "e", "s", "d", "e", " ">>

\* _format_situacao
_format_situacao(situacao, data_situacao, data_abertura) ==
    IF IsBlank(situacao) THEN <<>>
    ELSE LET status == Strip(situacao)
             date_to_use == IF data_situacao # <<>> THEN data_situacao ELSE data_abertura
         IN  IF date_to_use # <<>> /\ Strip(date_to_use) # <<>>
             THEN IF /\ Len(date_to_use) = 10
                     /\ date_to_use[5] # "-" \/ date_to_use[8] # "-"
                     /\ date_to_use[3] = "/" /\ date_to_use[6] = "/"
                     /\ \A k \in {1, 2, 4, 5, 7, 8, 9, 10} : date_to_use[k] # "/"
                  THEN status \o DESDE \o SubSeq(date_to_use, 7, 10) \o <<"-">>
                           \o SubSeq(date_to_use, 4, 5) \o <<"-">> \o SubSeq(date_to_use, 1, 2)
                  ELSE status \o DESDE \o date_to_use
             ELSE status

RECURSIVE Dedup(_, _)
Dedup(seen, rest) ==
    IF rest = <<>> THEN seen
    ELSE IF \E k \in 1..Len(seen) : seen[k] = Head(rest) THEN Dedup(seen, Tail(rest))
    ELSE Dedup(Append(seen, Head(rest)), Tail(rest))

\* _combine_telefones
_combine_telefones(telefones) ==
    LET stripped == [k \in 1..Len(telefones) |-> Strip(telefones[k])]
        valid_telefones == Dedup(<<>>, SelectSeq(stripped, LAMBDA t : t # <<>>))
    IN  Join(<<",", " ">>, valid_telefones)

\* nome_api_puxada = f"{nome_empresa}-{cidade}-{estado}"
NomeApiPuxada(payload) == payload.nome \o <<"-">> \o payload.cidade \o <<"-">> \o payload.estado

Mei(flag) == IF flag THEN SIM ELSE NAO

\* `if data and isinstance(data, dict)`: an empty body, like None, is no answer
IsAnswer(payload) == payload # None

get_from_cnpja(cnpj, payload) ==
    IF ~IsAnswer(payload) THEN None
    ELSE [CNPJData(cnpj, "CNPJa") EXCEPT
            !.nome_empresa = payload.nome,
            !.nome_api_puxada = NomeApiPuxada(payload),
            !.natureza = payload.natureza,
            !.situacao = IF payload.situacao # <<>>
                         THEN payload.situacao \o DESDE \o payload.data_situacao
                         ELSE <<>>,
            !.porte = payload.porte,
            !.telefone = Join(<<",", " ">>, payload.telefones),
            !.email = IF payload.email # <<>> THEN payload.email ELSE NOT_AVAILABLE,
            !.mei = Mei(payload.mei)]

\* get_from_brasil_api, get_from_receita_ws, get_from_cnpj_ws and
\* get_from_minha_receita build the record alike, each from its own keys
FromPayload(cnpj, source, payload) ==
    IF ~IsAnswer(payload) THEN None
    ELSE [CNPJData(cnpj, source) EXCEPT
            !.nome_empresa = payload.nome,
            !.nome_api_puxada = NomeApiPuxada(payload),
            !.natureza = payload.natureza,
            !.situacao = _format_situacao(payload.situacao, payload.data_situacao, <<>>),
            !.porte = payload.porte,
            !.telefone = _combine_telefones(payload.telefones),
            !.email = payload.email,
            !.mei = Mei(payload.mei)]

get_from_brasil_api(cnpj, payload) == FromPayload(cnpj, "BrasilAPI", payload)

get_from_receita_ws(cnpj, payload) == FromPayload(cnpj, "ReceitaWS", payload)

get_from_cnpj_ws(cnpj, payload) == FromPayload(cnpj, "CNPJ.ws", payload)

get_from_minha_receita(cnpj, payload) == FromPayload(cnpj, "Minha Receita", payload)

(***************************************************************************)
(* The merge engine (src/main.py 764-869).                                 *)
(***************************************************************************)
\* a completeness check that asks for the name alone
NameIsEnough(rec) == rec # None /\ ~IsBlank(rec.nome_empresa)

\* a merge in which the fragment's fields win
FragmentWins(existing_data, new_data) ==
    IF new_data = None THEN existing_data
    ELSE [new_data EXCEPT !.cnpj = existing_data.cnpj]

\* _is_data_complete
_is_data_complete(rec) ==
    /\ rec # None
    /\ ~IsBlank(rec.nome_empresa)
    /\ \/ ~IsBlank(rec.natureza)
       \/ ~IsBlank(rec.situacao)
       \/ ~IsBlank(rec.porte)

\* _merge_cnpj_data
_merge_cnpj_data(existing_data, new_data) ==
    IF new_data = None THEN existing_data
    ELSE [existing_data EXCEPT
            !.nome_empresa = IF IsBlank(@) THEN new_data.nome_empresa ELSE @,
            !.nome_api_puxada = IF IsBlank(@) THEN new_data.nome_api_puxada ELSE @,
            !.natureza = IF IsBlank(@) THEN new_data.natureza ELSE @,
            !.situacao = IF IsBlank(@) THEN new_data.situacao ELSE @,
            !.porte = IF IsBlank(@) THEN new_data.porte ELSE @,
            !.mei = IF IsBlank(@) \/ @ = MEI_UNKNOWN THEN new_data.mei ELSE @,
            !.telefone = IF IsBlank(@) THEN new_data.telefone ELSE @,
            !.email = IF IsBlank(@) THEN new_data.email ELSE @,
            !.source = IF @ # "" /\ new_data.source # ""
                       THEN IF @ # new_data.source THEN @ \o " + " \o new_data.source ELSE @
                       ELSE IF new_data.source # "" THEN new_data.source ELSE @]

(***************************************************************************)
(* scrape_cnpj (src/main.py 871-970), one block a step.                    *)
(***************************************************************************)
\* how a provider's answer stands to the completeness predicate
Outcome(reply) ==
    IF reply = None THEN "miss"
    ELSE IF _is_data_complete(reply) THEN "complete" ELSE "incomplete"

Called(source, reply) == [source |-> source, outcome |-> Outcome(reply)]

\* a block that merges whatever the provider answered
MergeWhateverCame(rec, reply, source) ==
    IF reply # None THEN [_merge_cnpj_data(rec, reply) EXCEPT !.source = source] ELSE rec

\* `if api_data and self._is_data_complete(api_data)`: merge, and name the source
MergeIfComplete(rec, reply, source) ==
    IF reply # None /\ _is_data_complete(reply)
    THEN [_merge_cnpj_data(rec, reply) EXCEPT !.source = source]
    ELSE rec

\* a ReceitaWS block without its `elif api_data` branch
MergeReceitaWsCompleteOnly(rec, reply) == MergeIfComplete(rec, reply, "ReceitaWS")

\* the ReceitaWS block: a complete answer as above, any other answer is merged too
MergeReceitaWs(rec, reply) ==
    IF reply # None /\ _is_data_complete(reply)
    THEN [_merge_cnpj_data(rec, reply) EXCEPT !.source = "ReceitaWS"]
    ELSE IF reply # None
    THEN [_merge_cnpj_data(rec, reply) EXCEPT !.source = "ReceitaWS (partial)"]
    ELSE rec

\* a fallback block without its guard on the name
ShouldTryWhateverTheName(rec, enabled) == enabled

\* `if not data.nome_empresa or data.nome_empresa.strip() == ""`, then the flag
ShouldTry(rec, enabled) == IsBlank(rec.nome_empresa) /\ enabled

\* Try CNPJa first
TryCnpja ==
    /\ scrape_pc = "cnpja"
    /\ scrape_pc' = "brasil_api"
    /\ IF api_config.CNPJA_ENABLED
       THEN \E payload \in Responses(1) :
               LET reply == get_from_cnpja(data.cnpj, payload)
               IN  /\ api_data' = reply
                   /\ data' = MergeIfComplete(data, reply, "CNPJa")
                   /\ calls' = Append(calls, Called("CNPJa", reply))
       ELSE UNCHANGED <<api_data, data, calls>>
    /\ UNCHANGED <<result_text, api_config, missing>>

\* a BrasilAPI block that gives the chain up when the provider has no answer
TryBrasilApiStopsOnMiss ==
    /\ scrape_pc = "brasil_api"
    /\ IF ShouldTry(data, api_config.BRASIL_API_ENABLED)
       THEN \E payload \in Responses(2) :
               LET reply == get_from_brasil_api(data.cnpj, payload)
               IN  /\ api_data' = reply
                   /\ data' = MergeIfComplete(data, reply, "BrasilAPI")
                   /\ calls' = Append(calls, Called("BrasilAPI", reply))
                   /\ scrape_pc' = IF reply = None THEN "contact_check" ELSE "receita_ws"
       ELSE scrape_pc' = "receita_ws" /\ UNCHANGED <<api_data, data, calls>>
    /\ UNCHANGED <<result_text, api_config, missing>>

\* Fallback to BrasilAPI
TryBrasilApi ==
    /\ scrape_pc = "brasil_api"
    /\ scrape_pc' = "receita_ws"
    /\ IF ShouldTry(data, api_config.BRASIL_API_ENABLED)
       THEN \E payload \in Responses(2) :
               LET reply == get_from_brasil_api(data.cnpj, payload)
               IN  /\ api_data' = reply
                   /\ data' = MergeIfComplete(data, reply, "BrasilAPI")
                   /\ calls' = Append(calls, Called("BrasilAPI", reply))
       ELSE UNCHANGED <<api_data, data, calls>>
    /\ UNCHANGED <<result_text, api_config, missing>>

\* Fallback to ReceitaWS
TryReceitaWs ==
    /\ scrape_pc = "receita_ws"
    /\ scrape_pc' = "cnpj_ws"
    /\ IF ShouldTry(data, api_config.RECEITA_WS_ENABLED)
       THEN \E payload \in Responses(3) :
               LET reply == get_from_receita_ws(data.cnpj, payload)
               IN  /\ api_data' = reply
                   /\ data' = MergeReceitaWs(data, reply)
                   /\ calls' = Append(calls, Called("ReceitaWS", reply))
       ELSE UNCHANGED <<api_data, data, calls>>
    /\ UNCHANGED <<result_text, api_config, missing>>

\* Fallback to CNPJ.ws
TryCnpjWs ==
    /\ scrape_pc = "cnpj_ws"
    /\ scrape_pc' = "minha_receita"
    /\ IF ShouldTry(data, api_config.CNPJ_WS_ENABLED)
       THEN \E payload \in Responses(4) :
               LET reply == get_from_cnpj_ws(data.cnpj, payload)
               IN  /\ api_data' = reply
                   /\ data' = MergeIfComplete(data, reply, "CNPJ.ws")
                   /\ calls' = Append(calls, Called("CNPJ.ws", reply))
       ELSE UNCHANGED <<api_data, data, calls>>
    /\ UNCHANGED <<result_text, api_config, missing>>

\* Last fallback to Minha Receita
TryMinhaReceita ==
    /\ scrape_pc = "minha_receita"
    /\ scrape_pc' = "contact_check"
    /\ IF ShouldTry(data, api_config.MINHA_RECEITA_ENABLED)
       THEN \E payload \in Responses(5) :
               LET reply == get_from_minha_receita(data.cnpj, payload)
               IN  /\ api_data' = reply
                   /\ data' = MergeIfComplete(data, reply, "Minha Receita")
                   /\ calls' = Append(calls, Called("Minha Receita", reply))
       ELSE UNCHANGED <<api_data, data, calls>>
    /\ UNCHANGED <<result_text, api_config, missing>>

\* `not x or x.strip() == "" or x == "N/A"`
IsMissing(x) == IsBlank(x) \/ x = NOT_AVAILABLE

\* a STEP 2 that looks for both fields whatever the providers gave
ContactCheckLooksAnyway ==
    /\ scrape_pc = "contact_check"
    /\ missing' = [phone |-> TRUE, email |-> TRUE]
    /\ scrape_pc' = IF api_config.ENABLE_ADDITIONAL_SCRAPING THEN "web_phone" ELSE "validation"
    /\ UNCHANGED <<result_text, api_config, data, api_data, calls>>

\* STEP 2: which contact fields are missing, and whether to look for them
ContactCheck ==
    /\ scrape_pc = "contact_check"
    /\ missing' = [phone |-> IsMissing(data.telefone), email |-> IsMissing(data.email)]
    /\ scrape_pc' = IF (missing'.phone \/ missing'.email)
                       /\ api_config.ENABLE_ADDITIONAL_SCRAPING
                    THEN "web_phone" ELSE "validation"
    /\ UNCHANGED <<result_text, api_config, data, api_data, calls>>

\* what scrape_additional_info can return on a pass for one field: None, or the
\* field found on a page
ScrapeResults(field, found) == {None, [f \in {field} |-> found]}

\* a pass of scrape_additional_info, and whether it found its field
Scraped(field, found) ==
    [source |-> "Web Scraping", field |-> field,
     outcome |-> IF found # None THEN "found" ELSE "nothing"]

\* scrape_additional_info(cnpj, look_for_phone=True, look_for_email=False)
WebPhone ==
    /\ scrape_pc = "web_phone"
    /\ scrape_pc' = "web_email"
    /\ IF missing.phone
       THEN \E phone_data \in ScrapeResults("telefone", WEB_PHONE) :
               /\ data' = IF phone_data # None
                          THEN [data EXCEPT !.telefone = phone_data.telefone] ELSE data
               /\ calls' = Append(calls, Scraped("telefone", phone_data))
       ELSE UNCHANGED <<data, calls>>
    /\ UNCHANGED <<result_text, api_config, api_data, missing>>

\* the e-mail pass without the update of the source
WebEmailUntagged ==
    /\ scrape_pc = "web_email"
    /\ scrape_pc' = "validation"
    /\ IF missing.email
       THEN \E email_data \in ScrapeResults("email", WEB_EMAIL) :
               /\ data' = IF email_data # None
                          THEN [data EXCEPT !.email = email_data.email] ELSE data
               /\ calls' = Append(calls, Scraped("email", email_data))
       ELSE UNCHANGED <<data, calls>>
    /\ UNCHANGED <<result_text, api_config, api_data, missing>>

\* scrape_additional_info(cnpj, look_for_phone=False, look_for_email=True), then
\* the source is updated
WebEmail ==
    /\ scrape_pc = "web_email"
    /\ scrape_pc' = "validation"
    /\ LET tagged(rec) ==
               [rec EXCEPT !.source = IF @ # "" THEN @ \o " + Web Scraping"
                                      ELSE "Web Scraping"]
       IN  IF missing.email
           THEN \E email_data \in ScrapeResults("email", WEB_EMAIL) :
                   /\ data' = tagged(IF email_data # None
                                     THEN [data EXCEPT !.email = email_data.email]
                                     ELSE data)
                   /\ calls' = Append(calls, Scraped("email", email_data))
           ELSE data' = tagged(data) /\ UNCHANGED calls
    /\ UNCHANGED <<result_text, api_config, api_data, missing>>

\* Final data validation, and return
FinalValidation ==
    /\ scrape_pc = "validation"
    /\ scrape_pc' = "returned"
    /\ data' = [data EXCEPT !.telefone = IF IsBlank(@) THEN NOT_AVAILABLE ELSE @,
                            !.email = IF IsBlank(@) THEN NOT_AVAILABLE ELSE @]
    /\ UNCHANGED <<result_text, api_config, api_data, missing, calls>>

(***************************************************************************)
(* build_nome_api, format_br_phone and save_result (src/main.py 115-162,   *)
(* 1104-1122).                                                             *)
(***************************************************************************)
\* the characters the model writes, in the order of their code points
ASCII ==
    <<" ", "(", ")", ",", "-", ".", "/", "0", "1", "2", "3", "4", "5", "6", "7", "8", "9",
      "?", "@", "A", "B", "C", "D", "E", "F", "G", "H", "I", "J", "K", "L", "M", "N", "O",
      "P", "Q", "R", "S", "T", "U", "V", "W", "X", "Y", "Z", "a", "b", "c", "d", "e", "f",
      "g", "h", "i", "j", "k", "l", "m", "n", "o", "p", "q", "r", "s", "t", "u", "v", "w",
      "x", "y", "z">>

Ord(c) == CHOOSE k \in 1..Len(ASCII) : ASCII[k] = c

\* str.lower, str.upper and str.capitalize
lower(s) ==
    [k \in 1..Len(s) |->
        IF Ord(s[k]) \in Ord("A")..Ord("Z") THEN ASCII[Ord(s[k]) + Ord("a") - Ord("A")]
        ELSE s[k]]

upper(s) ==
    [k \in 1..Len(s) |->
        IF Ord(s[k]) \in Ord("a")..Ord("z") THEN ASCII[Ord(s[k]) - Ord("a") + Ord("A")]
        ELSE s[k]]

capitalize(s) == IF s = <<>> THEN s ELSE upper(<<Head(s)>>) \o lower(Tail(s))

\* re.split on a single character: the parts between its occurrences, empty ones too
RECURSIVE Split(_, _)
Split(s, sep) ==
    IF \A k \in 1..Len(s) : s[k] # sep THEN <<s>>
    ELSE LET k == CHOOSE i \in 1..Len(s) : s[i] = sep /\ \A j \in 1..(i - 1) : s[j] # sep
         IN  <<SubSeq(s, 1, k - 1)>> \o Split(SubSeq(s, k + 1, Len(s)), sep)

\* the lexicographic order of str
RECURSIVE StrLess(_, _)
StrLess(a, b) ==
    IF b = <<>> THEN FALSE
    ELSE IF a = <<>> THEN TRUE
    ELSE IF Head(a) # Head(b) THEN Ord(Head(a)) < Ord(Head(b))
    ELSE StrLess(Tail(a), Tail(b))

\* sorted(set(...))
RECURSIVE sorted(_)
sorted(S) ==
    IF S = {} THEN <<>>
    ELSE LET least == CHOOSE x \in S : \A y \in S \ {x} : StrLess(x, y)
         IN  <<least>> \o sorted(S \ {least})

STOPWORDS ==
    {<<"d", "a">>, <<"d", "o">>, <<"d", "o", "s">>, <<"d", "a", "s">>, <<"d", "e">>,
     <<"m", "e">>, <<"e", "p", "p">>, <<"l", "t">>, <<"l", "t", "d", "a">>, <<"s", "a">>,
     <<"s">>, <<"a", "s", "s">>, <<"c", "o", "m">>}

build_nome_api(raw_name) ==
    IF raw_name = <<>> THEN <<>>
    ELSE LET alnum == {ASCII[k] : k \in Ord("0")..Ord("9")}
                          \cup {ASCII[k] : k \in Ord("A")..Ord("Z")}
                          \cup {ASCII[k] : k \in Ord("a")..Ord("z")}
             clean_name == [k \in 1..Len(raw_name) |->
                               IF raw_name[k] \in alnum THEN raw_name[k] ELSE " "]
             words == SelectSeq(Split(clean_name, " "),
                                LAMBDA w : w # <<>> /\ lower(w) \notin STOPWORDS)
         IN  Join(<<"-">>, [k \in 1..Len(words) |-> capitalize(words[k])])

\* a normalization that takes every leading 55 for the country code
StripAnyCountryCode(number) ==
    IF number = <<>> THEN <<>>
    ELSE LET parts == Split(number, ",")
             Digits(part) ==
                 LET all == SelectSeq(part, LAMBDA c : c \in DIGITS)
                 IN  IF Len(all) >= 2 /\ SubSeq(all, 1, 2) = <<"5", "5">>
                     THEN SubSeq(all, 3, Len(all)) ELSE all
             Formatted(digits) ==
                 IF Len(digits) = 11
                 THEN <<"(">> \o SubSeq(digits, 1, 2) \o <<")", " ">> \o SubSeq(digits, 3, 7)
                          \o <<"-">> \o SubSeq(digits, 8, 11)
                 ELSE IF Len(digits) = 10
                 THEN <<"(">> \o SubSeq(digits, 1, 2) \o <<")", " ">> \o SubSeq(digits, 3, 6)
                          \o <<"-">> \o SubSeq(digits, 7, 10)
                 ELSE IF Len(digits) = 9
                 THEN SubSeq(digits, 1, 5) \o <<"-">> \o SubSeq(digits, 6, 9)
                 ELSE digits
             results == {Formatted(Digits(parts[k])) : k \in 1..Len(parts)} \ {<<>>}
         IN  Join(<<",", " ">>, sorted(results))

format_br_phone(number) ==
    IF number = <<>> THEN <<>>
    ELSE LET parts == Split(number, ",")
             Digits(part) ==
                 LET all == SelectSeq(part, LAMBDA c : c \in DIGITS)
                 IN  IF Len(all) > 11 /\ SubSeq(all, 1, 2) = <<"5", "5">>
                     THEN SubSeq(all, 3, Len(all)) ELSE all
             Formatted(digits) ==
                 IF Len(digits) = 11
                 THEN <<"(">> \o SubSeq(digits, 1, 2) \o <<")", " ">> \o SubSeq(digits, 3, 7)
                          \o <<"-">> \o SubSeq(digits, 8, 11)
                 ELSE IF Len(digits) = 10
                 THEN <<"(">> \o SubSeq(digits, 1, 2) \o <<")", " ">> \o SubSeq(digits, 3, 6)
                          \o <<"-">> \o SubSeq(digits, 7, 10)
                 ELSE IF Len(digits) = 9
                 THEN SubSeq(digits, 1, 5) \o <<"-">> \o SubSeq(digits, 6, 9)
                 ELSE digits
             results == {Formatted(Digits(parts[k])) : k \in 1..Len(parts)} \ {<<>>}
         IN  Join(<<",", " ">>, sorted(results))

\* a block that never shows an undetermined MEI
BlockWithMeiNao(rec) ==
    [NOME_LEGAL |-> rec.nome_empresa, NOME_API_DE_PUXADA |-> build_nome_api(rec.nome_api_puxada),
     CNPJ |-> rec.cnpj, NATUREZA |-> rec.natureza, SITUACAO |-> rec.situacao,
     PORTE |-> rec.porte, MEI |-> IF rec.mei = MEI_UNKNOWN THEN NAO ELSE rec.mei,
     TEL |-> format_br_phone(rec.telefone), EMAIL |-> rec.email]

\* save_result: the block of the record, a line a field
save_result(rec) ==
    [NOME_LEGAL |-> rec.nome_empresa, NOME_API_DE_PUXADA |-> build_nome_api(rec.nome_api_puxada),
     CNPJ |-> rec.cnpj, NATUREZA |-> rec.natureza, SITUACAO |-> rec.situacao,
     PORTE |-> rec.porte, MEI |-> rec.mei, TEL |-> format_br_phone(rec.telefone),
     EMAIL |-> rec.email]

\* process_single, after scrape_cnpj has returned: self.save_result(data)
SaveResult ==
    /\ scrape_pc = "returned"
    /\ scrape_pc' = "saved"
    /\ result_text' = Append(result_text, save_result(data))
    /\ UNCHANGED <<api_config, data, api_data, missing, calls>>

ScrapeStep ==
    \/ TryCnpja
    \/ TryBrasilApi
    \/ TryReceitaWs
    \/ TryCnpjWs
    \/ TryMinhaReceita
    \/ ContactCheck
    \/ WebPhone
    \/ WebEmail
    \/ FinalValidation
    \/ SaveResult

\* _validate_config: a provider or the page extraction is enabled
ApisValid(c) ==
    \/ c.CNPJA_ENABLED
    \/ c.BRASIL_API_ENABLED
    \/ c.RECEITA_WS_ENABLED
    \/ c.CNPJ_WS_ENABLED
    \/ c.MINHA_RECEITA_ENABLED
    \/ c.ENABLE_ADDITIONAL_SCRAPING

ApiConfigs ==
    [CNPJA_ENABLED : BOOLEAN, BRASIL_API_ENABLED : BOOLEAN, RECEITA_WS_ENABLED : BOOLEAN,
     CNPJ_WS_ENABLED : BOOLEAN, MINHA_RECEITA_ENABLED : BOOLEAN,
     ENABLE_ADDITIONAL_SCRAPING : BOOLEAN]

\* scrape_cnpj is entered: data = CNPJData(cnpj=cnpj)
ChainInit ==
    /\ api_config \in {c \in ApiConfigs : ApisValid(c)}
    /\ data = CNPJData(CNPJ_A, "")
    /\ api_data = None
    /\ missing = [phone |-> FALSE, email |-> FALSE]
    /\ scrape_pc = "cnpja"
    /\ calls = <<>>
    /\ result_text = <<>>

\* the scheduler's specifications leave scrape_cnpj's inside out: the defaults of
\* _load_config, and no call in progress
ChainIdle ==
    /\ api_config = [CNPJA_ENABLED |-> FALSE, BRASIL_API_ENABLED |-> FALSE,
                     RECEITA_WS_ENABLED |-> FALSE, CNPJ_WS_ENABLED |-> TRUE,
                     MINHA_RECEITA_ENABLED |-> FALSE, ENABLE_ADDITIONAL_SCRAPING |-> TRUE]
    /\ data = None
    /\ api_data = None
    /\ missing = [phone |-> FALSE, email |-> FALSE]
    /\ scrape_pc = "idle"
    /\ calls = <<>>
    /\ result_text = <<>>

(***************************************************************************)
(* scrape_cnpj_sites (src/main.py 987-1094): process_url and               *)
(* process_with_semaphore of each URL, a step from an await to the next.   *)
(***************************************************************************)
WEB_SCRAPING_MAX_RETRIES == 3

WEB_SCRAPING_RATE_LIMIT == 1

\* the exceptions the pages of one pass may raise
MaxRaised == 1

\* urls, by position: cnpj.biz, consultacnpj.com, empresacnpj.com
urls == 1..3

\* the phone and the e-mail a page of each URL may show
PagePhone == <<"tel-1", "tel-2", "tel-3">>

PageEmail == <<"email-1", "email-2", "email-3">>

\* what extract_phone_from_html and extract_email_from_html give for a page of u
Pages(u) == [tel : {"", PagePhone[u]}, email : {"", PageEmail[u]}]

\* (not look_for_phone or out["tel"]) and (not look_for_email or out["email"])
FoundAll(found) ==
    /\ ~look_for.phone \/ found.tel # ""
    /\ ~look_for.email \/ found.email # ""

\* `async with semaphore` is left, and the task of the URL ends
Release(u) ==
    /\ url_pc' = [url_pc EXCEPT ![u] = "done"]
    /\ url_semaphore' = url_semaphore + 1

\* browser launch and new_context, then gather: each task takes the semaphore,
\* passes process_url's early-stop check on the empty `out`, and awaits new_page
Launch ==
    /\ sites_pc = "launch"
    /\ sites_pc' = "gather"
    /\ url_pc' = [u \in urls |-> "new_page"]
    /\ url_semaphore' = url_semaphore - Cardinality(urls)
    /\ UNCHANGED <<look_for, refused, out, url_attempt, sleeping, sites_result, loads, last_load,
                   assigned, raised>>

\* the launch raises: `except Exception: pass`, and the empty result
LaunchRaised ==
    /\ sites_pc = "launch"
    /\ sites_pc' = "returned"
    /\ sites_result' = None
    /\ UNCHANGED <<look_for, refused, out, url_pc, url_attempt, url_semaphore, sleeping, loads,
                   last_load, assigned,
                   raised>>

\* new_page and route return, and page.goto is called
Opened(u) ==
    /\ url_pc[u] = "new_page"
    /\ url_pc' = [url_pc EXCEPT ![u] = "goto"]
    /\ loads' = [loads EXCEPT ![u] = @ + 1]
    /\ UNCHANGED <<look_for, refused, out, sites_pc, url_attempt, url_semaphore, sleeping,
                   sites_result, last_load, assigned, raised>>

\* new_page raises: `except Exception: pass`, no page to close, the rate-limit sleep
OpenRaised(u) ==
    /\ raised < MaxRaised
    /\ raised' = raised + 1
    /\ url_pc[u] = "new_page"
    /\ url_pc' = [url_pc EXCEPT ![u] = "rate_limit"]
    /\ sleeping' = [sleeping EXCEPT ![u] = WEB_SCRAPING_RATE_LIMIT]
    /\ UNCHANGED <<look_for, refused, out, sites_pc, url_attempt, url_semaphore, sites_result,
                   loads, last_load, assigned>>

\* an extraction that assigns whatever the page shows
\* an extraction that takes both fields from a page whatever the pass looks for
ExtractWhateverAsked(found, page) ==
    [tel |-> IF found.tel = "" /\ page.tel # "" THEN page.tel ELSE found.tel,
     email |-> IF found.email = "" /\ page.email # "" THEN page.email ELSE found.email]

ExtractOverwriting(found, page) ==
    [tel |-> IF look_for.phone /\ page.tel # "" THEN page.tel ELSE found.tel,
     email |-> IF look_for.email /\ page.email # "" THEN page.email ELSE found.email]

\* `if look_for_phone and not out["tel"]: ... if tel: out["tel"] = tel`, and the
\* same for the e-mail
Extract(found, page) ==
    [tel |-> IF look_for.phone /\ found.tel = "" /\ page.tel # "" THEN page.tel
             ELSE found.tel,
     email |-> IF look_for.email /\ found.email = "" /\ page.email # "" THEN page.email
               ELSE found.email]

\* page.goto and page.content return, the fields are extracted, page.close is called
Loaded(u) ==
    /\ url_pc[u] = "goto"
    /\ \E page \in Pages(u) :
          /\ out' = Extract(out, page)
          /\ assigned' = [tel |-> assigned.tel + (IF out'.tel # out.tel THEN 1 ELSE 0),
                          email |-> assigned.email + (IF out'.email # out.email THEN 1 ELSE 0)]
          /\ refused' = [tel |-> refused.tel \/ (look_for.phone /\ out.tel # "" /\ page.tel # ""),
                         email |-> refused.email
                                       \/ (look_for.email /\ out.email # "" /\ page.email # "")]
    /\ url_pc' = [url_pc EXCEPT ![u] = "closing"]
    /\ last_load' = [last_load EXCEPT ![u] = "loaded"]
    /\ UNCHANGED <<look_for, sites_pc, url_attempt, url_semaphore, sleeping,
                   sites_result, loads, raised>>

\* page.goto or page.content raises: `except Exception: pass`, page.close is called
LoadRaised(u) ==
    /\ raised < MaxRaised
    /\ raised' = raised + 1
    /\ url_pc[u] = "goto"
    /\ url_pc' = [url_pc EXCEPT ![u] = "closing"]
    /\ last_load' = [last_load EXCEPT ![u] = "failed"]
    /\ UNCHANGED <<look_for, refused, out, sites_pc, url_attempt, url_semaphore, sleeping,
                   sites_result, loads, assigned>>

\* page.close returns: the rate-limit sleep
Closed(u) ==
    /\ url_pc[u] = "closing"
    /\ url_pc' = [url_pc EXCEPT ![u] = "rate_limit"]
    /\ sleeping' = [sleeping EXCEPT ![u] = WEB_SCRAPING_RATE_LIMIT]
    /\ UNCHANGED <<look_for, refused, out, sites_pc, url_attempt, url_semaphore, sites_result,
                   loads, last_load, assigned, raised>>

\* page.close raises, out of process_url: process_with_semaphore sleeps
\* 1 * (attempt + 1), or lets the last attempt go
CloseRaised(u) ==
    /\ raised < MaxRaised
    /\ raised' = raised + 1
    /\ url_pc[u] = "closing"
    /\ IF url_attempt[u] < WEB_SCRAPING_MAX_RETRIES - 1
       THEN /\ url_pc' = [url_pc EXCEPT ![u] = "backoff"]
            /\ sleeping' = [sleeping EXCEPT ![u] = 1 * (url_attempt[u] + 1)]
            /\ UNCHANGED url_semaphore
       ELSE Release(u) /\ UNCHANGED sleeping
    /\ UNCHANGED <<look_for, refused, out, sites_pc, url_attempt, sites_result, loads, last_load,
                   assigned>>

\* the rate-limit sleep is over and process_url returns: break if all is found,
\* else the next attempt passes process_url's check and awaits new_page
RateLimitOver(u) ==
    /\ url_pc[u] = "rate_limit"
    /\ IF FoundAll(out) \/ url_attempt[u] = WEB_SCRAPING_MAX_RETRIES - 1
       THEN Release(u) /\ UNCHANGED url_attempt
       ELSE /\ url_attempt' = [url_attempt EXCEPT ![u] = @ + 1]
            /\ url_pc' = [url_pc EXCEPT ![u] = "new_page"]
            /\ UNCHANGED url_semaphore
    /\ UNCHANGED <<look_for, refused, out, sites_pc, sleeping, sites_result, loads, last_load,
                   assigned, raised>>

\* the sleep after an exception is over: the next attempt's process_url returns
\* at once if all is found, and the loop breaks; else it awaits new_page
BackoffOver(u) ==
    /\ url_pc[u] = "backoff"
    /\ url_attempt' = [url_attempt EXCEPT ![u] = @ + 1]
    /\ IF FoundAll(out)
       THEN Release(u)
       ELSE url_pc' = [url_pc EXCEPT ![u] = "new_page"] /\ UNCHANGED url_semaphore
    /\ UNCHANGED <<look_for, refused, out, sites_pc, sleeping, sites_result, loads, last_load,
                   assigned, raised>>

\* `result`: the fields that were found, None if there is none
Result(found) ==
    LET keys == {k \in {"telefone", "email"} :
                    IF k = "telefone" THEN found.tel # "" ELSE found.email # ""}
    IN  IF keys = {} THEN None
        ELSE [k \in keys |-> IF k = "telefone" THEN found.tel ELSE found.email]

\* gather returns, the browser is closed
Gathered ==
    /\ sites_pc = "gather"
    /\ \A u \in urls : url_pc[u] = "done"
    /\ sites_pc' = "returned"
    /\ sites_result' = Result(out)
    /\ UNCHANGED <<look_for, refused, out, url_pc, url_attempt, url_semaphore, sleeping, loads,
                   last_load, assigned,
                   raised>>

SitesStep ==
    \/ Launch
    \/ LaunchRaised
    \/ \E u \in urls :
          \/ Opened(u)
          \/ OpenRaised(u)
          \/ Loaded(u)
          \/ LoadRaised(u)
          \/ Closed(u)
          \/ CloseRaised(u)
          \/ RateLimitOver(u)
          \/ BackoffOver(u)
    \/ Gathered

\* no call of scrape_cnpj_sites in progress
SitesIdle ==
    /\ look_for = [phone |-> FALSE, email |-> FALSE]
    /\ out = [tel |-> "", email |-> ""]
    /\ sites_pc = "idle"
    /\ url_pc = [u \in urls |-> "done"]
    /\ url_attempt = [u \in urls |-> 0]
    /\ url_semaphore = 3
    /\ sleeping = [u \in urls |-> 0]
    /\ sites_result = None
    /\ loads = [u \in urls |-> 0]
    /\ last_load = [u \in urls |-> "none"]
    /\ assigned = [tel |-> 0, email |-> 0]
    /\ refused = [tel |-> FALSE, email |-> FALSE]
    /\ raised = 0

\* scrape_cnpj_sites is entered, as scrape_cnpj calls it (a phone, or an e-mail)
\* or with its defaults (both)
SitesInit ==
    /\ look_for \in {[phone |-> TRUE, email |-> FALSE], [phone |-> FALSE, email |-> TRUE],
                     [phone |-> TRUE, email |-> TRUE]}
    /\ out = [tel |-> "", email |-> ""]
    /\ sites_pc = "launch"
    /\ url_pc = [u \in urls |-> "start"]
    /\ url_attempt = [u \in urls |-> 0]
    /\ url_semaphore = 3
    /\ sleeping = [u \in urls |-> 0]
    /\ sites_result = None
    /\ loads = [u \in urls |-> 0]
    /\ last_load = [u \in urls |-> "none"]
    /\ assigned = [tel |-> 0, email |-> 0]
    /\ refused = [tel |-> FALSE, email |-> FALSE]
    /\ raised = 0

(***************************************************************************)
(* SimpleCache (src/main.py 178-205) and make_request (509-543).           *)
(***************************************************************************)
MaxRetries == 3
MaxDelayMin == 2
MaxClock == 4

\* SimpleCache(ttl_seconds=3600): the clock of the model counts in units of 1800 s
ttl_seconds == 2

\* the largest CACHE_TTL of the environment, in the same units
MaxCacheTtl == 3

CacheKeys == {"cnpja_1", "brasil_api_1"}

\* a call without cache_key: `if cache_key:` is false
NO_KEY == ""

\* the JSON body `{}`
EMPTY_BODY == [empty |-> TRUE]

\* the bodies a provider can send with status 200
Bodies == {EMPTY_BODY, BlankPayload, [BlankPayload EXCEPT !.nome = <<"N", "1">>]}

\* `if cached_data:` -- None and the empty body are false
Truthy(value) == value # None /\ value # EMPTY_BODY

\* SimpleCache.get at time now: the value it returns
Get(store, key, now) ==
    IF store[key] # None /\ now - store[key].timestamp < ttl_seconds
    THEN store[key].value ELSE None

\* SimpleCache.get at time now: the dictionary it leaves, the stale entry deleted
Evict(store, key, now) ==
    IF store[key] # None /\ ~(now - store[key].timestamp < ttl_seconds)
    THEN [store EXCEPT ![key] = None] ELSE store

\* SimpleCache.set
Set(store, key, value, now) == [store EXCEPT ![key] = [value |-> value, timestamp |-> now]]

\* `if attempt < self.config['RETRY_ATTEMPTS'] - 1`
AttemptsRemain(k) == k < fetch_config.RETRY_ATTEMPTS - 1

\* a backoff that does not grow
ConstantDelay(k) == fetch_config.RETRY_DELAY_MIN

\* delay = self.config['RETRY_DELAY_MIN'] * (2 ** attempt)
Delay(k) == fetch_config.RETRY_DELAY_MIN * 2^k

\* the for loop goes to its next attempt, or is exhausted and None is returned
NextAttempt ==
    /\ attempt' = attempt + 1
    /\ IF attempt + 1 < fetch_config.RETRY_ATTEMPTS
       THEN request_pc' = "awaiting" /\ UNCHANGED returned
       ELSE request_pc' = "returned" /\ returned' = None

\* make_request(url, cache_key) is called: the cache is asked first
Request(key) ==
    /\ request_pc \in {"idle", "returned"}
    /\ cache_key' = key
    /\ outcomes' = <<>>
    /\ sleeps' = <<>>
    /\ attempt' = 0
    /\ LET cached_data == IF key # NO_KEY THEN Get(cache, key, clock) ELSE None
       IN  /\ cache' = IF key # NO_KEY THEN Evict(cache, key, clock) ELSE cache
           /\ IF Truthy(cached_data)
              THEN request_pc' = "returned" /\ returned' = cached_data
              ELSE IF fetch_config.RETRY_ATTEMPTS > 0
              THEN request_pc' = "awaiting" /\ returned' = None
              ELSE request_pc' = "returned" /\ returned' = None
    /\ UNCHANGED <<fetch_config, clock>>

\* the response has status 200: its body is cached and returned
Response200(body) ==
    /\ request_pc = "awaiting"
    /\ outcomes' = Append(outcomes, "200")
    /\ cache' = IF cache_key # NO_KEY THEN Set(cache, cache_key, body, clock) ELSE cache
    /\ returned' = body
    /\ request_pc' = "returned"
    /\ UNCHANGED <<fetch_config, clock, cache_key, attempt, sleeps>>

\* the response has another status: `pass`, and the loop goes on
ResponseNot200 ==
    /\ request_pc = "awaiting"
    /\ outcomes' = Append(outcomes, "status")
    /\ NextAttempt
    /\ UNCHANGED <<fetch_config, cache, clock, cache_key, sleeps>>

\* a request that gives up at its first exception
RequestRaisedGivesUp ==
    /\ request_pc = "awaiting"
    /\ outcomes' = Append(outcomes, "raised")
    /\ request_pc' = "returned"
    /\ returned' = None
    /\ UNCHANGED <<fetch_config, cache, clock, cache_key, attempt, sleeps>>

\* session.get or response.json() raised: sleep if attempts remain, and go on
RequestRaised ==
    /\ request_pc = "awaiting"
    /\ outcomes' = Append(outcomes, "raised")
    /\ IF AttemptsRemain(attempt)
       THEN /\ sleeps' = Append(sleeps, Delay(attempt))
            /\ request_pc' = "sleeping"
            /\ UNCHANGED <<attempt, returned>>
       ELSE NextAttempt /\ UNCHANGED sleeps
    /\ UNCHANGED <<fetch_config, cache, clock, cache_key>>

\* asyncio.sleep(delay) returns
Wake ==
    /\ request_pc = "sleeping"
    /\ NextAttempt
    /\ UNCHANGED <<fetch_config, cache, clock, cache_key, outcomes, sleeps>>

\* time passes
Tick ==
    /\ clock < MaxClock
    /\ clock' = clock + 1
    /\ UNCHANGED <<fetch_config, cache, request_pc, cache_key, attempt, returned,
                   outcomes, sleeps>>

FetchStep ==
    \/ \E key \in CacheKeys \cup {NO_KEY} : Request(key)
    \/ \E body \in Bodies : Response200(body)
    \/ ResponseNot200
    \/ RequestRaised
    \/ Wake
    \/ Tick

\* after construction: self.cache = SimpleCache(ttl_seconds=3600), empty
FetchInit ==
    /\ fetch_config \in [RETRY_ATTEMPTS : 0..MaxRetries, RETRY_DELAY_MIN : 1..MaxDelayMin,
                         CACHE_TTL : {ttl_seconds, MaxCacheTtl}]
    /\ cache = [key \in CacheKeys |-> None]
    /\ clock = 0
    /\ request_pc = "idle"
    /\ cache_key = NO_KEY
    /\ attempt = 0
    /\ returned = None
    /\ outcomes = <<>>
    /\ sleeps = <<>>

\* the other specifications leave make_request's inside out
FetchIdle ==
    /\ FetchInit
    /\ fetch_config = [RETRY_ATTEMPTS |-> MaxRetries, RETRY_DELAY_MIN |-> 1,
                       CACHE_TTL |-> ttl_seconds]

\* a scraper that is given nothing to do
SchedIdle ==
    /\ SchedInit({<<>>}, {<<>>})
    /\ config = [BATCH_SIZE |-> 1, MAX_CONCURRENCY |-> 1]

(***************************************************************************)
(* run: the batch loop (src/main.py 1224-1234).                            *)
(***************************************************************************)
BatchOf(start) ==
    start .. Min(start + config.BATCH_SIZE - 1, Len(pending_cnpjs))

CurrentBatch == IF run_pc = "gather" THEN BatchOf(batch_start) ELSE {}

\* CNPJs for which no process_single has passed the admission check, and which
\* have no outcome in this run
Admitted(t) == task_pc[t] \in (InFlight \cup {"finished", "failed", "skipped"})

StillPending ==
    {c \in Range(pending_cnpjs) :
        \A t \in 1..Len(pending_cnpjs) : pending_cnpjs[t] = c => ~Admitted(t)}

\* for i in range(0, len(pending_cnpjs), BATCH_SIZE): not terminate_requested,
\* batch = pending_cnpjs[i:i + BATCH_SIZE]; process_batch creates the semaphore
\* and one process_single per CNPJ of the batch
StartBatch ==
    /\ run_pc = "loop"
    /\ batch_start <= Len(pending_cnpjs)
    /\ ~dashboard.terminate_requested
    /\ run_pc' = "gather"
    /\ semaphore' = config.MAX_CONCURRENCY
    /\ task_pc' = [t \in 1..Len(pending_cnpjs) |->
                      IF t \in BatchOf(batch_start) THEN "waiting" ELSE task_pc[t]]
    /\ UNCHANGED <<config, input_file, result_file, done_file, error_file, cnpjs,
                   completed_cnpjs, dashboard, pending_cnpjs, batch_start, run_start,
                   crash_log>>

\* if self.dashboard.terminate_requested: break
BreakOnTerminate ==
    /\ run_pc = "loop"
    /\ batch_start <= Len(pending_cnpjs)
    /\ dashboard.terminate_requested
    /\ run_pc' = "finished"
    /\ UNCHANGED <<config, input_file, result_file, done_file, error_file, cnpjs,
                   completed_cnpjs, dashboard, pending_cnpjs, batch_start, task_pc,
                   semaphore, run_start, crash_log>>

\* the range is exhausted
LoopExhausted ==
    /\ run_pc = "loop"
    /\ batch_start > Len(pending_cnpjs)
    /\ run_pc' = "finished"
    /\ UNCHANGED <<config, input_file, result_file, done_file, error_file, cnpjs,
                   completed_cnpjs, dashboard, pending_cnpjs, batch_start, task_pc,
                   semaphore, run_start, crash_log>>

\* a gather that stops waiting for its tasks once the flag is set
GatherAbandonsOnCancel ==
    /\ run_pc = "gather"
    /\ \/ \A t \in BatchOf(batch_start) : task_pc[t] \in Returned
       \/ dashboard.terminate_requested
    /\ run_pc' = "finished"
    /\ UNCHANGED <<config, input_file, result_file, done_file, error_file, cnpjs,
                   completed_cnpjs, dashboard, pending_cnpjs, batch_start, task_pc,
                   semaphore, run_start, crash_log>>

\* a gather that returns with the first of its tasks
GatherReturnsAtFirst ==
    /\ run_pc = "gather"
    /\ \E t \in BatchOf(batch_start) : task_pc[t] \in Returned
    /\ run_pc' = "batch_sleep"
    /\ UNCHANGED <<config, input_file, result_file, done_file, error_file, cnpjs,
                   completed_cnpjs, dashboard, pending_cnpjs, batch_start, task_pc,
                   semaphore, run_start, crash_log>>

\* await asyncio.gather(*tasks, return_exceptions=True) returns
GatherDone ==
    /\ run_pc = "gather"
    /\ \A t \in BatchOf(batch_start) : task_pc[t] \in Returned
    /\ run_pc' = "batch_sleep"
    /\ UNCHANGED <<config, input_file, result_file, done_file, error_file, cnpjs,
                   completed_cnpjs, dashboard, pending_cnpjs, batch_start, task_pc,
                   semaphore, run_start, crash_log>>

\* await asyncio.sleep(1) returns; the loop variable advances
BatchSleepDone ==
    /\ run_pc = "batch_sleep"
    /\ run_pc' = "loop"
    /\ batch_start' = batch_start + config.BATCH_SIZE
    /\ UNCHANGED <<config, input_file, result_file, done_file, error_file, cnpjs,
                   completed_cnpjs, dashboard, pending_cnpjs, task_pc, semaphore, run_start,
                   crash_log>>

(***************************************************************************)
(* process_single (src/main.py 1138-1183).  A step runs from one await to  *)
(* the next: the event loop runs nothing else in between.                  *)
(***************************************************************************)
\* an acquire that never blocks
CanAcquireUnbounded(t) ==
    /\ run_pc = "gather"
    /\ t \in BatchOf(batch_start)
    /\ task_pc[t] = "waiting"

\* async with semaphore: a free slot, and (the waiters are served first come,
\* first served) no earlier task of the batch still waiting
CanAcquire(t) ==
    /\ run_pc = "gather"
    /\ t \in BatchOf(batch_start)
    /\ task_pc[t] = "waiting"
    /\ semaphore > 0
    /\ \A u \in BatchOf(batch_start) : u < t => task_pc[u] # "waiting"

\* the flag is set: return, the slot is released at once
AdmitCancelled(t) ==
    /\ CanAcquire(t)
    /\ dashboard.terminate_requested
    /\ task_pc' = [task_pc EXCEPT ![t] = "returned"]
    /\ UNCHANGED <<config, input_file, result_file, done_file, error_file, cnpjs,
                   completed_cnpjs, dashboard, pending_cnpjs, run_pc, batch_start,
                   semaphore, run_start, crash_log>>

\* in_progress += 1; cnpj in completed_cnpjs: done += 1; in_progress -= 1; return
AdmitSkip(t) ==
    /\ CanAcquire(t)
    /\ ~dashboard.terminate_requested
    /\ pending_cnpjs[t] \in completed_cnpjs
    /\ dashboard' = [dashboard EXCEPT !.done = @ + 1]
    /\ task_pc' = [task_pc EXCEPT ![t] = "skipped"]
    /\ UNCHANGED <<config, input_file, result_file, done_file, error_file, cnpjs,
                   completed_cnpjs, pending_cnpjs, run_pc, batch_start, semaphore, run_start,
                   crash_log>>

\* an admission that does not look at the flag
AdmitIgnoringFlag(t) ==
    /\ run_pc = "gather"
    /\ t \in BatchOf(batch_start)
    /\ task_pc[t] = "waiting"
    /\ semaphore > 0
    /\ pending_cnpjs[t] \notin completed_cnpjs
    /\ semaphore' = semaphore - 1
    /\ dashboard' = [dashboard EXCEPT !.in_progress = @ + 1]
    /\ task_pc' = [task_pc EXCEPT ![t] = "scraping"]
    /\ UNCHANGED <<config, input_file, result_file, done_file, error_file, cnpjs,
                   completed_cnpjs, pending_cnpjs, run_pc, batch_start, run_start,
                   crash_log>>

\* in_progress += 1; data = await self.scrape_cnpj(cnpj) suspends, holding the slot:
\* every provider request and page extraction for the CNPJ is made at this position
Admit(t) ==
    /\ CanAcquire(t)
    /\ ~dashboard.terminate_requested
    /\ pending_cnpjs[t] \notin completed_cnpjs
    /\ semaphore' = semaphore - 1
    /\ dashboard' = [dashboard EXCEPT !.in_progress = @ + 1]
    /\ task_pc' = [task_pc EXCEPT ![t] = "scraping"]
    /\ UNCHANGED <<config, input_file, result_file, done_file, error_file, cnpjs,
                   completed_cnpjs, pending_cnpjs, run_pc, batch_start, run_start,
                   crash_log>>

\* a resolution that writes the checkpoint line but no block
ResolvedUnsaved(t) ==
    /\ task_pc[t] = "scraping"
    /\ done_file' = Append(done_file, pending_cnpjs[t])
    /\ completed_cnpjs' = completed_cnpjs \cup {pending_cnpjs[t]}
    /\ dashboard' = [dashboard EXCEPT !.done = @ + 1, !.in_progress = @ - 1]
    /\ task_pc' = [task_pc EXCEPT ![t] = "sleeping"]
    /\ UNCHANGED <<config, input_file, result_file, error_file, cnpjs, pending_cnpjs,
                   run_pc, batch_start, semaphore, run_start, crash_log>>

\* scrape_cnpj returns: save_result, mark_done, completed_cnpjs.add, done += 1,
\* in_progress -= 1, and the rate-limit sleep begins
Resolved(t) ==
    /\ task_pc[t] = "scraping"
    /\ result_file' = Append(result_file, pending_cnpjs[t])
    /\ done_file' = Append(done_file, pending_cnpjs[t])
    /\ completed_cnpjs' = completed_cnpjs \cup {pending_cnpjs[t]}
    /\ dashboard' = [dashboard EXCEPT !.done = @ + 1, !.in_progress = @ - 1]
    /\ task_pc' = [task_pc EXCEPT ![t] = "sleeping"]
    /\ UNCHANGED <<config, input_file, error_file, cnpjs, pending_cnpjs, run_pc,
                   batch_start, semaphore, run_start, crash_log>>

\* where an exception can be raised between admission and the rate-limit sleep:
\* before save_result has written its block, or after it (in mark_done)
FaultPoints == {"scrape_cnpj", "mark_done"}

\* str(e)
FaultText(where) == where

\* a handler that forgets errors += 1
FaultedUncounted(t, where) ==
    /\ task_pc[t] = "scraping"
    /\ result_file' = IF where = "mark_done" THEN Append(result_file, pending_cnpjs[t])
                      ELSE result_file
    /\ error_file' = Append(error_file, <<pending_cnpjs[t], where>>)
    /\ dashboard' = [dashboard EXCEPT !.in_progress = @ - 1]
    /\ semaphore' = semaphore + 1
    /\ task_pc' = [task_pc EXCEPT ![t] = "failed"]
    /\ UNCHANGED <<config, input_file, done_file, cnpjs, completed_cnpjs,
                   pending_cnpjs, run_pc, batch_start, run_start, crash_log>>

\* a fault that leaves gather and ends the run
FaultedHaltsRun(t, where) ==
    /\ task_pc[t] = "scraping"
    /\ result_file' = IF where = "mark_done" THEN Append(result_file, pending_cnpjs[t])
                      ELSE result_file
    /\ error_file' = Append(error_file, <<pending_cnpjs[t], where>>)
    /\ dashboard' = [dashboard EXCEPT !.errors = @ + 1, !.in_progress = @ - 1]
    /\ semaphore' = semaphore + 1
    /\ task_pc' = [task_pc EXCEPT ![t] = "failed"]
    /\ run_pc' = "finished"
    /\ UNCHANGED <<config, input_file, done_file, cnpjs, completed_cnpjs,
                   pending_cnpjs, batch_start, run_start, crash_log>>

\* a handler that forgets in_progress -= 1
FaultedStaysInProgress(t, where) ==
    /\ task_pc[t] = "scraping"
    /\ result_file' = IF where = "mark_done" THEN Append(result_file, pending_cnpjs[t])
                      ELSE result_file
    /\ error_file' = Append(error_file, <<pending_cnpjs[t], where>>)
    /\ dashboard' = [dashboard EXCEPT !.errors = @ + 1]
    /\ semaphore' = semaphore + 1
    /\ task_pc' = [task_pc EXCEPT ![t] = "failed"]
    /\ UNCHANGED <<config, input_file, done_file, cnpjs, completed_cnpjs,
                   pending_cnpjs, run_pc, batch_start, run_start, crash_log>>

\* except Exception as e: errors += 1; in_progress -= 1; mark_error(cnpj, str(e));
\* the slot is released
Faulted(t, where) ==
    /\ task_pc[t] = "scraping"
    /\ result_file' = IF where = "mark_done" THEN Append(result_file, pending_cnpjs[t])
                      ELSE result_file
    /\ error_file' = Append(error_file, <<pending_cnpjs[t], FaultText(where)>>)
    /\ dashboard' = [dashboard EXCEPT !.errors = @ + 1, !.in_progress = @ - 1]
    /\ semaphore' = semaphore + 1
    /\ task_pc' = [task_pc EXCEPT ![t] = "failed"]
    /\ UNCHANGED <<config, input_file, done_file, cnpjs, completed_cnpjs,
                   pending_cnpjs, run_pc, batch_start, run_start, crash_log>>

\* await asyncio.sleep(1 / REQUESTS_PER_SECOND) returns; the slot is released
RateLimitDone(t) ==
    /\ task_pc[t] = "sleeping"
    /\ semaphore' = semaphore + 1
    /\ task_pc' = [task_pc EXCEPT ![t] = "finished"]
    /\ UNCHANGED <<config, input_file, result_file, done_file, error_file, cnpjs,
                   completed_cnpjs, dashboard, pending_cnpjs, run_pc, batch_start, run_start,
                   crash_log>>

(***************************************************************************)
(* Dashboard._signal_handler (src/main.py 225-228).                        *)
(***************************************************************************)
_signal_handler ==
    /\ run_pc \in {"loop", "gather", "batch_sleep"}
    /\ ~dashboard.terminate_requested
    /\ dashboard' = [dashboard EXCEPT !.terminate_requested = TRUE]
    /\ UNCHANGED <<config, input_file, result_file, done_file, error_file, cnpjs,
                   completed_cnpjs, pending_cnpjs, run_pc, batch_start, task_pc,
                   semaphore, run_start, crash_log>>

(***************************************************************************)
(* A crash of the process, and the next start on the files it left.        *)
(***************************************************************************)
\* how many crashes a behaviour holds
MaxCrashes == 1

Running == run_pc \in {"loop", "gather", "batch_sleep"}

\* the memory is lost; the files stay as they are
MemoryLost ==
    /\ run_pc' = "crashed"
    /\ cnpjs' = <<>>
    /\ completed_cnpjs' = {}
    /\ pending_cnpjs' = <<>>
    /\ task_pc' = <<>>
    /\ batch_start' = 1
    /\ semaphore' = 0
    /\ dashboard' = [total |-> 0, done |-> 0, pending |-> 0, in_progress |-> 0,
                     errors |-> 0, terminate_requested |-> FALSE]
    /\ UNCHANGED <<config, input_file, error_file, run_start>>

\* the process dies between two steps of the event loop
Crash ==
    /\ Running
    /\ Len(crash_log) < MaxCrashes
    /\ crash_log' = Append(crash_log, done_file)
    /\ MemoryLost
    /\ UNCHANGED <<result_file, done_file>>

\* the process dies inside process_single, after save_result and before mark_done
CrashAfterSave(t) ==
    /\ Running
    /\ Len(crash_log) < MaxCrashes
    /\ task_pc[t] = "scraping"
    /\ result_file' = Append(result_file, pending_cnpjs[t])
    /\ crash_log' = Append(crash_log, done_file)
    /\ MemoryLost
    /\ UNCHANGED done_file

\* OptimizedCNPJScraper() and run, again
Restart ==
    /\ run_pc = "crashed"
    /\ Construct(input_file, done_file)
    /\ run_start' = [done |-> Len(done_file), errors |-> Len(error_file),
                     results |-> Len(result_file),
                     completed |-> _load_completed_cnpjs(done_file)]
    /\ UNCHANGED <<config, input_file, result_file, done_file, error_file, crash_log>>

Tasks == 1..Len(pending_cnpjs)

\* the steps the event loop takes
ProgramStep ==
    \/ StartBatch
    \/ BreakOnTerminate
    \/ LoopExhausted
    \/ GatherDone
    \/ BatchSleepDone
    \/ \E t \in Tasks : AdmitCancelled(t)
    \/ \E t \in Tasks : AdmitSkip(t)
    \/ \E t \in Tasks : Admit(t)
    \/ \E t \in Tasks : Resolved(t)
    \/ \E t \in Tasks, where \in FaultPoints : Faulted(t, where)
    \/ \E t \in Tasks : RateLimitDone(t)

(***************************************************************************)
(* The start of the process: __init__ (src/main.py 317-340) with           *)
(* _load_config, _validate_config and _init_files, and its exit.           *)
(***************************************************************************)
\* the largest value an option of the environment is given
MaxEnvValue == 1

\* the environments: every numeric option _validate_config looks at, from a
\* value it rejects upwards, and the six enable flags
Envs ==
    [BATCH_SIZE : 0..MaxEnvValue, MAX_CONCURRENCY : 0..MaxEnvValue,
     REQUESTS_PER_SECOND : 0..MaxEnvValue, RETRY_ATTEMPTS : -1..MaxEnvValue,
     CACHE_TTL : 0..MaxEnvValue, CONNECTION_TIMEOUT : 0..MaxEnvValue,
     REQUEST_TIMEOUT : 0..MaxEnvValue,
     CNPJA_ENABLED : BOOLEAN, BRASIL_API_ENABLED : BOOLEAN, RECEITA_WS_ENABLED : BOOLEAN,
     CNPJ_WS_ENABLED : BOOLEAN, MINHA_RECEITA_ENABLED : BOOLEAN,
     ENABLE_ADDITIONAL_SCRAPING : BOOLEAN]

\* a validation that looks at the numbers only
ValidateNumbersOnly(c) ==
    {name \in {"BATCH_SIZE", "MAX_CONCURRENCY", "REQUESTS_PER_SECOND", "CACHE_TTL",
               "CONNECTION_TIMEOUT", "REQUEST_TIMEOUT"} : c[name] <= 0}
        \cup (IF c.RETRY_ATTEMPTS < 0 THEN {"RETRY_ATTEMPTS"} ELSE {})

\* _validate_config: `errors`, by the option each is about
_validate_config(c) ==
    {name \in {"BATCH_SIZE", "MAX_CONCURRENCY", "REQUESTS_PER_SECOND", "CACHE_TTL",
               "CONNECTION_TIMEOUT", "REQUEST_TIMEOUT"} : c[name] <= 0}
        \cup (IF c.RETRY_ATTEMPTS < 0 THEN {"RETRY_ATTEMPTS"} ELSE {})
        \cup (IF ~ApisValid(c) THEN {"apis_enabled"} ELSE {})

\* the files _init_files makes sure of
OutputFiles == {"result_file", "done_file", "error_file"}

\* Dashboard(): every counter at 0, the flag down
Dashboard ==
    [total |-> 0, done |-> 0, pending |-> 0, in_progress |-> 0, errors |-> 0,
     terminate_requested |-> FALSE]

\* self.config = self._load_config(): the ValueError of _validate_config is caught
\* nowhere and ends the process with status 1
LoadConfig ==
    /\ start_pc = "load_config"
    /\ IF _validate_config(env) # {}
       THEN /\ start_pc' = "exited"
            /\ exit_status' = <<1>>
            /\ UNCHANGED config
       ELSE /\ start_pc' = "init_files"
            /\ config' = [BATCH_SIZE |-> env.BATCH_SIZE,
                          MAX_CONCURRENCY |-> env.MAX_CONCURRENCY]
            /\ UNCHANGED exit_status
    /\ UNCHANGED <<env, exists, input_file, result_file, done_file, error_file, cnpjs,
                   completed_cnpjs, dashboard, pending_cnpjs, run_pc, batch_start,
                   task_pc, semaphore, run_start, crash_log>>

\* _init_files: each file that is not there is created
InitFiles ==
    /\ start_pc = "init_files"
    /\ start_pc' = "load"
    /\ exists' = OutputFiles
    /\ UNCHANGED <<env, exit_status, schedVars>>

\* _load_cnpjs and _load_completed_cnpjs; run then filters the completed out
LoadInput ==
    /\ start_pc = "load"
    /\ start_pc' = "run"
    /\ Construct(input_file, done_file)
    /\ run_start' = [run_start EXCEPT !.completed = _load_completed_cnpjs(done_file)]
    /\ UNCHANGED <<env, exists, exit_status, config, input_file, result_file, done_file,
                   error_file, crash_log>>

\* run returns, through its `finally`, main returns and asyncio.run with it: the
\* interpreter exits with status 0
Exit ==
    /\ start_pc = "run"
    /\ run_pc = "finished"
    /\ start_pc' = "exited"
    /\ exit_status' = <<0>>
    /\ UNCHANGED <<env, exists, schedVars>>

StartStep ==
    \/ LoadConfig
    \/ InitFiles
    \/ LoadInput
    \/ Exit

\* the other specifications begin after the construction, when the environment
\* is read no more: a process that is constructed and has not exited
StartIdle ==
    /\ env = [BATCH_SIZE |-> 1, MAX_CONCURRENCY |-> 1, REQUESTS_PER_SECOND |-> 1,
              RETRY_ATTEMPTS |-> 1, CACHE_TTL |-> 1, CONNECTION_TIMEOUT |-> 1,
              REQUEST_TIMEOUT |-> 1, CNPJA_ENABLED |-> FALSE, BRASIL_API_ENABLED |-> FALSE,
              RECEITA_WS_ENABLED |-> FALSE, CNPJ_WS_ENABLED |-> TRUE,
              MINHA_RECEITA_ENABLED |-> FALSE, ENABLE_ADDITIONAL_SCRAPING |-> TRUE]
    /\ start_pc = "constructed"
    /\ exists = OutputFiles
    /\ exit_status = <<>>

\* the process starts: a first run with no file but the input, or a resumed one
InitStart ==
    /\ env \in Envs
    /\ start_pc = "load_config"
    /\ exists \in {{}, OutputFiles}
    /\ exit_status = <<>>
    /\ config = None
    /\ input_file \in {<<CNPJ_A>>, <<CNPJ_A, CNPJ_B>>}
    /\ done_file = IF exists = {} THEN <<>> ELSE <<CNPJ_A>>
    /\ result_file = done_file
    /\ error_file = <<>>
    /\ cnpjs = <<>>
    /\ completed_cnpjs = {}
    /\ dashboard = Dashboard
    /\ pending_cnpjs = <<>>
    /\ run_pc = "init"
    /\ batch_start = 1
    /\ task_pc = <<>>
    /\ semaphore = 0
    /\ run_start = [done |-> Len(done_file), errors |-> 0, results |-> Len(result_file),
                    completed |-> {}]
    /\ crash_log = <<>>
    /\ ChainIdle
    /\ FetchIdle
    /\ SitesIdle

\* every input file of at most MaxInputLines lines; a first run or a resumed one
Init ==
    /\ SchedInit(SeqsUpTo(InputLines, MaxInputLines), {<<>>, <<CNPJ_A>>})
    /\ ChainIdle
    /\ FetchIdle
    /\ SitesIdle
    /\ StartIdle

SchedStep == ProgramStep /\ UNCHANGED <<chainVars, fetchVars, siteVars, startVars>>

Interrupt == _signal_handler /\ UNCHANGED <<chainVars, fetchVars, siteVars, startVars>>

Next == SchedStep \/ Interrupt

Spec == Init /\ [][Next]_vars

\* every await of the program returns: the providers and the pages answer or time out
FairSpec == Spec /\ WF_vars(SchedStep)

\* input files for the runs that crash: two CNPJs, a repeated CNPJ, a malformed line
CrashInputs == {<<CNPJ_A, CNPJ_B>>, <<CNPJ_B, CNPJ_A, CNPJ_B>>, <<CNPJ_A, BAD_LINE, CNPJ_B>>}

InitCrash == SchedInit(CrashInputs, {<<>>, <<CNPJ_A>>}) /\ ChainIdle /\ FetchIdle /\ SitesIdle
    /\ StartIdle

NextCrash ==
    \/ SchedStep
    \/ Crash /\ UNCHANGED <<chainVars, fetchVars, siteVars, startVars>>
    \/ (\E t \in Tasks : CrashAfterSave(t)) /\ UNCHANGED <<chainVars, fetchVars, siteVars, startVars>>
    \/ Restart /\ UNCHANGED <<chainVars, fetchVars, siteVars, startVars>>

SpecCrash == InitCrash /\ [][NextCrash]_vars

NextStart ==
    \/ StartStep /\ UNCHANGED <<chainVars, fetchVars, siteVars>>
    \/ SchedStep
    \/ Interrupt

SpecStart == InitStart /\ [][NextStart]_vars

(***************************************************************************)
(* The merge engine on its own: _is_data_complete(api_data), then          *)
(* data = _merge_cnpj_data(data, api_data), twice over.                    *)
(***************************************************************************)
R_VALUE == <<"R">>
F_VALUE == <<"F">>

\* what a field of the record can hold when a fragment arrives, and what a field of
\* a fragment can hold: nothing, white space, a value
RecordFields == {<<>>, <<" ">>, R_VALUE}
FragmentFields == {<<>>, <<" ">>, F_VALUE}

\* the records a merge can meet: the identity fields filled alike, the contact
\* fields filled alike
Records ==
    {[cnpj |-> CNPJ_A, nome_empresa |-> id, nome_api_puxada |-> contact, natureza |-> id,
      situacao |-> id, porte |-> id, mei |-> mei, telefone |-> contact, email |-> contact,
      source |-> source] :
        id \in RecordFields, contact \in RecordFields, mei \in {MEI_UNKNOWN, SIM, NAO},
        source \in {"", "CNPJa", "BrasilAPI", "CNPJa + BrasilAPI"}}

\* the fragments an adapter can hand over, None among them
Fragments ==
    {[cnpj |-> CNPJ_A, nome_empresa |-> name, nome_api_puxada |-> contact,
      natureza |-> nature, situacao |-> status, porte |-> size, mei |-> mei,
      telefone |-> contact, email |-> contact, source |-> source] :
        name \in FragmentFields, nature \in FragmentFields, status \in {<<>>, F_VALUE},
        size \in {<<>>, F_VALUE}, contact \in {<<>>, F_VALUE}, mei \in {SIM, NAO},
        source \in {"", "BrasilAPI"}} \cup {None}

\* `if api_data and self._is_data_complete(api_data)`
CompletenessCheck ==
    /\ scrape_pc = "check"
    /\ scrape_pc' = "merge"
    /\ calls' = <<Called("BrasilAPI", api_data)>>
    /\ UNCHANGED <<result_text, api_config, data, api_data, missing>>

\* data = self._merge_cnpj_data(data, api_data)
MergeCall ==
    /\ scrape_pc = "merge"
    /\ scrape_pc' = "merge_again"
    /\ data' = _merge_cnpj_data(data, api_data)
    /\ UNCHANGED <<result_text, api_config, api_data, missing, calls>>

\* the same fragment merged a second time
MergeAgain ==
    /\ scrape_pc = "merge_again"
    /\ scrape_pc' = "merged"
    /\ data' = _merge_cnpj_data(data, api_data)
    /\ UNCHANGED <<result_text, api_config, api_data, missing, calls>>

MergeStep == CompletenessCheck \/ MergeCall \/ MergeAgain

InitMerge ==
    /\ SchedIdle
    /\ FetchIdle
    /\ SitesIdle
    /\ StartIdle
    /\ ChainIdle!1                  \* api_config as _load_config defaults it
    /\ data \in Records
    /\ api_data \in Fragments
    /\ missing = [phone |-> FALSE, email |-> FALSE]
    /\ scrape_pc = "check"
    /\ calls = <<>>
    /\ result_text = <<>>

NextMerge == MergeStep /\ UNCHANGED <<schedVars, fetchVars, siteVars, startVars>>

SpecMerge == InitMerge /\ [][NextMerge]_vars

\* one call of scrape_cnpj, under every valid choice of the enable flags
InitChain == SchedInit({<<>>}, {<<>>}) /\ ChainInit /\ FetchIdle /\ SitesIdle /\ StartIdle

NextChain == ScrapeStep /\ UNCHANGED <<schedVars, fetchVars, siteVars, startVars>>

SpecChain == InitChain /\ [][NextChain]_vars

\* make_request called time and again on one cache
InitFetch == SchedIdle /\ ChainIdle /\ FetchInit /\ SitesIdle /\ StartIdle

\* the phones a resolved record may hold: an area code and a subscriber number,
\* with or without a country code, bare or punctuated, alone or two together
AreaCodes == {<<"1", "1">>, <<"2", "1">>, <<"5", "5">>}

Subscribers ==
    {<<"9", "8", "7", "6", "5", "4", "3", "2", "1">>, <<"3", "3", "3", "3", "4", "4", "4", "4">>,
     <<"5", "5", "5", "5", "5", "5", "5", "5", "5">>, <<"1", "2", "3", "4", "5", "6", "7">>}

CountryCodes == {<<>>, <<"5", "5">>, <<"+", "5", "5", " ">>, <<"0">>}

PhoneInputs ==
    LET bare == {cc \o a \o n : cc \in CountryCodes, a \in AreaCodes, n \in Subscribers}
        punctuated == {cc \o <<"(">> \o a \o <<")", " ">> \o n :
                          cc \in CountryCodes, a \in AreaCodes, n \in Subscribers}
        pairs == {<<"1", "1">> \o n \o <<",", " ">> \o <<"2", "1">> \o m :
                     n \in Subscribers, m \in Subscribers}
    IN  bare \cup punctuated \cup pairs \cup {NOT_AVAILABLE}

\* scrape_cnpj has returned a record with a phone, and process_single saves it
InitPhone ==
    /\ SchedIdle
    /\ FetchIdle
    /\ SitesIdle
    /\ StartIdle
    /\ ChainIdle!1
    /\ data \in {[CNPJData(CNPJ_A, "") EXCEPT !.telefone = number, !.email = NOT_AVAILABLE] :
                     number \in PhoneInputs}
    /\ api_data = None
    /\ missing = [phone |-> FALSE, email |-> TRUE]
    /\ scrape_pc = "returned"
    /\ calls = <<>>
    /\ result_text = <<>>

NextPhone == SaveResult /\ UNCHANGED <<schedVars, fetchVars, siteVars, startVars>>

SpecPhone == InitPhone /\ [][NextPhone]_vars

\* one call of scrape_cnpj_sites, for a phone, for an e-mail, or for both
InitSites == SchedIdle /\ ChainIdle /\ FetchIdle /\ SitesInit /\ StartIdle

NextSites == SitesStep /\ UNCHANGED <<schedVars, chainVars, fetchVars, startVars>>

SpecSites == InitSites /\ [][NextSites]_vars

NextFetch == FetchStep /\ UNCHANGED <<schedVars, chainVars, siteVars, startVars>>

SpecFetch == InitFetch /\ [][NextFetch]_vars

(***************************************************************************)
(* What a run has written so far, and each CNPJ's status in the run.       *)
(***************************************************************************)
RunDone == {done_file[k] : k \in (run_start.done + 1)..Len(done_file)}

RunFailed == {error_file[k][1] : k \in (run_start.errors + 1)..Len(error_file)}

RunResults == {result_file[k] : k \in (run_start.results + 1)..Len(result_file)}

InFlightCount == Cardinality({t \in Tasks : task_pc[t] \in InFlight})

\* the CNPJs the model's input files hold
CNPJS == {CNPJ_A, CNPJ_B}

IsDone(c) == c \in RunDone

IsFailed(c) == c \in RunFailed

\* admitted and resolving, with no outcome yet
IsInProgress(c) ==
    /\ ~IsDone(c)
    /\ ~IsFailed(c)
    /\ \E t \in Tasks : pending_cnpjs[t] = c /\ task_pc[t] = "scraping"

IsPending(c) ==
    /\ c \in Range(pending_cnpjs)
    /\ ~IsDone(c)
    /\ ~IsFailed(c)
    /\ ~IsInProgress(c)

(***************************************************************************)
(* C1: in every reachable state, the number of process_single calls that   *)
(* have been admitted and have not finished (the rate-limit sleep          *)
(* included) is at most MAX_CONCURRENCY.                                   *)
(***************************************************************************)
C1_ConcurrencyBound == InFlightCount <= config.MAX_CONCURRENCY

\* the bound is met while another task of the batch waits for a slot
C1_Witness ==
    /\ InFlightCount = config.MAX_CONCURRENCY
    /\ \E t \in Tasks : task_pc[t] = "waiting"
    /\ \E t \in Tasks : task_pc[t] = "sleeping"

(***************************************************************************)
(* C2: a CNPJ that is in the completed checkpoint when the run starts gets *)
(* no process_single in the run (so no provider call, no page extraction   *)
(* and no worker slot), and no block in the result log.                    *)
(***************************************************************************)
C2_ResumeSkips ==
    \A c \in run_start.completed :
        /\ c \notin Range(pending_cnpjs)
        /\ c \notin RunResults
        /\ c \notin RunDone
        /\ c \notin RunFailed

\* a resumed run on an input that holds the completed CNPJ has ended, having
\* resolved another CNPJ
C2_Witness ==
    /\ run_pc = "finished"
    /\ CNPJ_A \in run_start.completed
    /\ CNPJ_A \in Range(cnpjs)
    /\ CNPJ_B \in RunDone

(***************************************************************************)
(* C3: once the cancellation flag is set, no process_single passes the     *)
(* admission check and no batch is started, and a CNPJ that is still       *)
(* pending stays pending; a pending CNPJ has no block in the result log    *)
(* and no line in completed or failed.                                     *)
(***************************************************************************)
C3_NoAdmissionAfterCancel ==
    /\ [][dashboard.terminate_requested =>
            /\ \A t \in Tasks : ~Admitted(t) => ~Admitted(t)'
            /\ run_pc' = "gather" => run_pc = "gather"
            /\ StillPending \subseteq StillPending'
            /\ dashboard'.terminate_requested]_vars
    /\ [](\A c \in StillPending : c \notin RunResults \cup RunDone \cup RunFailed)

\* a cancelled run has ended: one task was turned away at admission, and a
\* later batch was never started
C3_Witness ==
    /\ dashboard.terminate_requested
    /\ run_pc = "finished"
    /\ StillPending # {}
    /\ \E t \in Tasks : task_pc[t] = "returned"
    /\ \E t \in Tasks : task_pc[t] = "pending"
    /\ \E t \in Tasks : task_pc[t] = "finished"

(***************************************************************************)
(* C4: a process_single that is resolving its CNPJ when the flag is set    *)
(* is not aborted: it goes on to Done or Failed with its line in the       *)
(* checkpoint, and the run does not end before it has.                     *)
(***************************************************************************)
Settled(t) ==
    \/ task_pc[t] \in {"sleeping", "finished"} /\ pending_cnpjs[t] \in RunDone
    \/ task_pc[t] = "failed" /\ pending_cnpjs[t] \in RunFailed

C4_InFlightFinishes ==
    /\ \A t \in 1..(MaxInputLines + 1) :
          (t \in Tasks /\ dashboard.terminate_requested /\ task_pc[t] = "scraping")
              ~> (t \in Tasks /\ Settled(t))
    /\ [](run_pc = "finished" => \A t \in Tasks : task_pc[t] \notin InFlight)

\* the flag is set while one CNPJ is resolving and another has failed
C4_Witness ==
    /\ dashboard.terminate_requested
    /\ \E t \in Tasks : task_pc[t] = "scraping"
    /\ \E t \in Tasks : task_pc[t] = "failed"

(***************************************************************************)
(* C5: in a run each CNPJ's status moves only Pending -> InProgress ->     *)
(* Done or Pending -> InProgress -> Failed: Done and Failed are terminal,  *)
(* Pending never goes straight to an outcome, and no CNPJ has both         *)
(* outcomes.                                                               *)
(***************************************************************************)
C5_StatusMachine ==
    /\ [][\A c \in CNPJS :
            /\ IsDone(c) => IsDone(c)' /\ ~IsFailed(c)'
            /\ IsFailed(c) => IsFailed(c)' /\ ~IsDone(c)'
            /\ IsPending(c) => ~IsDone(c)' /\ ~IsFailed(c)']_vars
    /\ [](\A c \in CNPJS : ~(IsDone(c) /\ IsFailed(c)))

\* the same, for the runs whose pending list holds no CNPJ twice
NoRepeats == \A t, u \in Tasks : pending_cnpjs[t] = pending_cnpjs[u] => t = u

C5_StatusMachineNoRepeats ==
    /\ [][NoRepeats =>
            \A c \in CNPJS :
              /\ IsDone(c) => IsDone(c)' /\ ~IsFailed(c)'
              /\ IsFailed(c) => IsFailed(c)' /\ ~IsDone(c)'
              /\ IsPending(c) => ~IsDone(c)' /\ ~IsFailed(c)']_vars
    /\ [](NoRepeats => \A c \in CNPJS : ~(IsDone(c) /\ IsFailed(c)))

(***************************************************************************)
(* C6: when a resolution succeeds, its block is appended to the result     *)
(* log, its CNPJ to completed, and done grows by one; when a fault is      *)
(* raised while a CNPJ is processed, the CNPJ and the fault text are       *)
(* appended to failed, errors grows by one, and completed is unchanged.    *)
(***************************************************************************)
C6_OutcomeRecorded ==
    [][\A t \in Tasks :
        /\ (task_pc[t] = "scraping" /\ task_pc'[t] = "sleeping") =>
              /\ result_file' = Append(result_file, pending_cnpjs[t])
              /\ done_file' = Append(done_file, pending_cnpjs[t])
              /\ pending_cnpjs[t] \in completed_cnpjs'
              /\ dashboard'.done = dashboard.done + 1
              /\ dashboard'.errors = dashboard.errors
              /\ error_file' = error_file
        /\ (task_pc[t] = "scraping" /\ task_pc'[t] = "failed") =>
              /\ \E where \in FaultPoints :
                    error_file' = Append(error_file, <<pending_cnpjs[t], FaultText(where)>>)
              /\ dashboard'.errors = dashboard.errors + 1
              /\ dashboard'.done = dashboard.done
              /\ done_file' = done_file
              /\ completed_cnpjs' = completed_cnpjs]_vars

\* one CNPJ has been resolved and another has faulted
C6_Witness ==
    /\ \E t \in Tasks : task_pc[t] = "sleeping" /\ pending_cnpjs[t] \in RunDone
    /\ \E t \in Tasks : task_pc[t] = "failed" /\ pending_cnpjs[t] \in RunFailed
    /\ dashboard.done = 1
    /\ dashboard.errors = 1

(***************************************************************************)
(* C7: if the flag is never set and every await returns, the run ends      *)
(* with every CNPJ of the pending list Done or Failed, whatever faulted.   *)
(***************************************************************************)
AllSettled == \A c \in Range(pending_cnpjs) : c \in RunDone \cup RunFailed

C7_RunCompletes ==
    <>(dashboard.terminate_requested \/ (run_pc = "finished" /\ AllSettled))

\* an uncancelled run has ended; a CNPJ of an earlier batch had faulted and a
\* later one was resolved
C7_Witness ==
    /\ ~dashboard.terminate_requested
    /\ run_pc = "finished"
    /\ AllSettled
    /\ \E t, u \in Tasks : t < u /\ task_pc[t] = "failed" /\ task_pc[u] = "finished"

(***************************************************************************)
(* C8: in the run started after a crash, the CNPJs that were in completed  *)
(* at the crash get no process_single, every other valid input CNPJ is in  *)
(* the pending list again, and completed has lost nothing.                 *)
(***************************************************************************)
LastCrash == crash_log[Len(crash_log)]

C8_CrashResume ==
    (crash_log # <<>> /\ run_pc # "crashed") =>
        /\ \A c \in Range(LastCrash) : c \notin Range(pending_cnpjs)
        /\ \A c \in Range(_load_cnpjs(input_file)) :
              c \notin Range(LastCrash) => c \in Range(pending_cnpjs)
        /\ SubSeq(done_file, 1, Len(LastCrash)) = LastCrash
        /\ (run_pc = "finished" /\ ~dashboard.terminate_requested) =>
              \A c \in Range(_load_cnpjs(input_file)) :
                  c \in Range(LastCrash) \/ c \in RunDone \cup RunFailed

\* the run after a crash has ended: it skipped a CNPJ completed before the
\* crash and resolved one that had only failed before it
C8_Witness ==
    /\ crash_log # <<>>
    /\ run_pc = "finished"
    /\ \E c \in Range(LastCrash) : c \in Range(cnpjs)
    /\ \E k \in 1..run_start.errors : error_file[k][1] \in RunDone

(***************************************************************************)
(* The fallback chain.                                                     *)
(***************************************************************************)
ProviderIndex(source) == CHOOSE i \in 1..Len(Providers) : Providers[i] = source

Enabled(source) ==
    CASE source = "CNPJa" -> api_config.CNPJA_ENABLED
      [] source = "BrasilAPI" -> api_config.BRASIL_API_ENABLED
      [] source = "ReceitaWS" -> api_config.RECEITA_WS_ENABLED
      [] source = "CNPJ.ws" -> api_config.CNPJ_WS_ENABLED
      [] source = "Minha Receita" -> api_config.MINHA_RECEITA_ENABLED

\* the positions of `calls` that are calls of a provider
ProviderCalls == {i \in 1..Len(calls) : calls[i].source \in Range(Providers)}

\* C9: within one resolution the providers are called one after another in the
\* order CNPJa, BrasilAPI, ReceitaWS, CNPJ.ws, Minha Receita; a provider that is
\* called is enabled; and no provider is called after one whose answer satisfies
\* _is_data_complete.
C9_ProviderOrder ==
    /\ \A i \in ProviderCalls : Enabled(calls[i].source)
    /\ \A i, j \in ProviderCalls :
          i < j => /\ ProviderIndex(calls[i].source) < ProviderIndex(calls[j].source)
                   /\ calls[i].outcome # "complete"

\* two providers were called, the second answered completely, an earlier one is
\* disabled and a later one is enabled and was left alone
C9_Witness ==
    /\ scrape_pc = "returned"
    /\ \E i, j \in ProviderCalls :
          /\ i < j
          /\ calls[j].outcome = "complete"
          /\ \E p \in Range(Providers) :
                ~Enabled(p) /\ ProviderIndex(p) < ProviderIndex(calls[j].source)
          /\ \E p \in Range(Providers) :
                /\ Enabled(p)
                /\ ProviderIndex(p) > ProviderIndex(calls[j].source)
                /\ \A k \in ProviderCalls : calls[k].source # p

\* the last call was ReceitaWS, and its answer was there but not complete
AfterPartialReceitaWs ==
    /\ calls # <<>>
    /\ calls[Len(calls)] = [source |-> "ReceitaWS", outcome |-> "incomplete"]

\* the provider of the block scrape_cnpj is at
ProviderAt(pc) == IF pc = "cnpj_ws" THEN "CNPJ.ws" ELSE "Minha Receita"

\* C10: when ReceitaWS answers with a fragment that is not complete, the fragment
\* is merged into the record and the source reads "ReceitaWS (partial)"; the
\* following enabled provider is then called if and only if the record's name is
\* still blank after that merge.
C10_ReceitaWsPartial ==
    /\ [][(scrape_pc = "receita_ws" /\ calls' # calls
              /\ calls'[Len(calls')].outcome = "incomplete")
          => data' = [_merge_cnpj_data(data, api_data') EXCEPT
                         !.source = "ReceitaWS (partial)"]]_vars
    /\ [][(AfterPartialReceitaWs /\ scrape_pc \in {"cnpj_ws", "minha_receita"})
          => ((calls' # calls /\ calls'[Len(calls')].source = ProviderAt(scrape_pc))
                 <=> (IsBlank(data.nome_empresa) /\ Enabled(ProviderAt(scrape_pc))))]_vars

\* ReceitaWS gave a name without a legal nature: the record carries the name and
\* the partial tag, and the two enabled providers after it were not called
C10_Witness ==
    /\ scrape_pc = "contact_check"
    /\ AfterPartialReceitaWs
    /\ data.source = "ReceitaWS (partial)"
    /\ ~IsBlank(data.nome_empresa)
    /\ api_config.CNPJ_WS_ENABLED
    /\ api_config.MINHA_RECEITA_ENABLED

(***************************************************************************)
(* The merge engine.                                                       *)
(***************************************************************************)
\* a field holds something other than white space
HasText(x) == \E i \in 1..Len(x) : x[i] # " "

DataFields ==
    {"nome_empresa", "nome_api_puxada", "natureza", "situacao", "porte", "telefone", "email"}

\* C11: a record is complete exactly when its name has text and at least one of
\* nature, status and size has text, white space alone counting as nothing; a
\* record with a name alone, or a nature alone, is not complete.
C11_Completeness ==
    (calls # <<>> /\ scrape_pc \in {"merge", "merge_again", "merged"} /\ api_data # None)
        => ((calls[1].outcome = "complete")
               <=> (/\ HasText(api_data.nome_empresa)
                    /\ \/ HasText(api_data.natureza)
                       \/ HasText(api_data.situacao)
                       \/ HasText(api_data.porte)))

\* a fragment with a name, a phone and an e-mail and nothing else was found incomplete
C11_Witness ==
    /\ scrape_pc = "merge"
    /\ api_data # None
    /\ api_data.nome_empresa = F_VALUE
    /\ api_data.natureza = <<" ">>
    /\ api_data.situacao = <<>>
    /\ api_data.porte = <<>>
    /\ api_data.telefone = F_VALUE
    /\ calls[1].outcome = "incomplete"

\* C12: a merge leaves every data field of the record that has text as it was,
\* whatever the fragment holds, and replaces the MEI flag only while it is "?".
C12_MergeKeepsFields ==
    [][(scrape_pc \in {"merge", "merge_again"}) =>
          (/\ \A f \in DataFields : HasText(data[f]) => data'[f] = data[f]
           /\ data.mei # MEI_UNKNOWN => data'.mei = data.mei)]_vars

\* a full record with MEI "Sim" has met a full fragment with MEI "Nao"
C12_Witness ==
    /\ scrape_pc = "merge_again"
    /\ api_data # None
    /\ \A f \in DataFields : data[f] = R_VALUE /\ api_data[f] = F_VALUE
    /\ data.mei = SIM
    /\ api_data.mei = NAO

\* C13: merging the same fragment a second time changes nothing of the record,
\* the source included.
C13_MergeIdempotent == [][scrape_pc = "merge_again" => data' = data]_vars

(***************************************************************************)
(* Provenance, and what becomes of the fragments.                          *)
(***************************************************************************)
SourceTags == Range(Providers) \cup {"ReceitaWS (partial)", "Web Scraping"}

\* a call that put at least one field into the record, and the tag it goes by
Contributed(call) ==
    \/ call.outcome \in {"complete", "found"}
    \/ call.source = "ReceitaWS" /\ call.outcome = "incomplete"

TagOf(call) ==
    IF call.source = "ReceitaWS" /\ call.outcome = "incomplete"
    THEN "ReceitaWS (partial)" ELSE call.source

\* the tags of the calls that contributed, in the order of the calls, each once
RECURSIVE TagsOf(_)
TagsOf(cs) ==
    IF cs = <<>> THEN <<>>
    ELSE LET rest == TagsOf(SubSeq(cs, 1, Len(cs) - 1))
             last == cs[Len(cs)]
         IN  IF Contributed(last) /\ TagOf(last) \notin Range(rest)
             THEN Append(rest, TagOf(last)) ELSE rest

RECURSIVE JoinTags(_)
JoinTags(tags) ==
    IF tags = <<>> THEN ""
    ELSE IF Len(tags) = 1 THEN tags[1]
    ELSE tags[1] \o " + " \o JoinTags(Tail(tags))

\* C14: when a resolution returns, the record's source lists, in order and each
\* once, exactly the providers and the page extraction that put a field into the
\* record; and no step takes a tag out of the source again.
C14_ProvenanceAccumulates ==
    /\ [](scrape_pc = "returned" => data.source = JoinTags(TagsOf(calls)))
    /\ [][(scrape_pc # "idle" /\ data.source # "") =>
              \/ data'.source = data.source
              \/ \E t \in SourceTags : data'.source = data.source \o " + " \o t]_vars

\* the last provider that was called
LastProviderCall == CHOOSE i \in ProviderCalls : \A j \in ProviderCalls : j <= i

\* every provider called before the last one missed, and the last one answered
\* with a name and a nature
C15_Case ==
    /\ scrape_pc = "returned"
    /\ ProviderCalls # {}
    /\ \A i \in ProviderCalls : i < LastProviderCall => calls[i].outcome = "miss"
    /\ api_data # None
    /\ HasText(api_data.nome_empresa)
    /\ HasText(api_data.natureza)

EnrichmentRuns ==
    /\ api_config.ENABLE_ADDITIONAL_SCRAPING
    /\ \/ ~HasText(api_data.telefone) \/ api_data.telefone = NOT_AVAILABLE
       \/ ~HasText(api_data.email) \/ api_data.email = NOT_AVAILABLE

ProviderAnswered ==
    /\ calls' # calls
    /\ calls'[Len(calls')].source \in Range(Providers)
    /\ api_data' # None

\* every field the fragment supplies has filled the record's field that was empty
FieldsFilled ==
    \A f \in DataFields :
        (~HasText(data[f]) /\ HasText(api_data'[f])) => data'[f] = api_data'[f]

\* C16 as the spec words it: whatever fragment a called provider returns is
\* merged into the record, complete or not.
C16_EveryFragmentMerged == [][ProviderAnswered => FieldsFilled]_vars

\* C16, amended: a fragment is merged when it satisfies the completeness
\* predicate or comes from ReceitaWS; an incomplete fragment of any other
\* provider is dropped whole and the record stays as it was.
C16_CompleteOrReceitaWsMerged ==
    [][ProviderAnswered =>
          IF \/ calls'[Len(calls')].outcome = "complete"
             \/ calls'[Len(calls')].source = "ReceitaWS"
          THEN FieldsFilled
          ELSE data' = data]_vars

\* BrasilAPI answered with a nature and no name: the record has no nature
C16_Witness ==
    /\ scrape_pc = "receita_ws"
    /\ calls # <<>>
    /\ calls[Len(calls)] = [source |-> "BrasilAPI", outcome |-> "incomplete"]
    /\ api_data # None
    /\ api_data.natureza = NATURE
    /\ data.natureza = <<>>

(***************************************************************************)
(* The retrying fetcher and the cache.                                     *)
(***************************************************************************)
AllRaised == outcomes # <<>> /\ \A i \in 1..Len(outcomes) : outcomes[i] = "raised"

\* C17: with RETRY_ATTEMPTS = N >= 1, a request whose every attempt raises makes
\* exactly N attempts and then returns None to its caller.
C17_RetriesThenMiss ==
    AllRaised =>
        /\ Len(outcomes) <= fetch_config.RETRY_ATTEMPTS
        /\ request_pc = "returned" <=> Len(outcomes) = fetch_config.RETRY_ATTEMPTS
        /\ request_pc = "returned" => returned = None

\* three attempts were allowed, three were made and all raised
C17_Witness ==
    /\ fetch_config.RETRY_ATTEMPTS = 3
    /\ outcomes = <<"raised", "raised", "raised">>
    /\ request_pc = "returned"
    /\ returned = None

\* C18: an attempt that gets a status other than 200 is the last attempt of its
\* request, which returns None; only an attempt that raised is followed by
\* another one.
C18_NoRetryOnStatus ==
    /\ \A i \in 1..Len(outcomes) :
          outcomes[i] = "status" =>
              /\ i = Len(outcomes)
              /\ request_pc = "returned"
              /\ returned = None
    /\ \A i \in 1..(Len(outcomes) - 1) : outcomes[i] = "raised"

\* C19: when attempt k (counted from 0) raises, the request sleeps
\* RETRY_DELAY_MIN * 2^k if an attempt remains, and does not sleep if it was the
\* last; nothing else makes it sleep.
C19_Backoff ==
    [][LET k == Len(outcomes)
       IN  IF request_pc = "awaiting" /\ outcomes' = Append(outcomes, "raised")
           THEN IF k + 1 < fetch_config.RETRY_ATTEMPTS
                THEN /\ request_pc' = "sleeping"
                     /\ sleeps' = Append(sleeps, fetch_config.RETRY_DELAY_MIN * 2^k)
                ELSE /\ request_pc' = "returned"
                     /\ sleeps' = sleeps
           ELSE sleeps' = sleeps \/ sleeps' = <<>>]_vars

\* with a delay of 2 the request slept 2 and 4, and not after its third attempt
C19_Witness ==
    /\ fetch_config.RETRY_ATTEMPTS = 3
    /\ fetch_config.RETRY_DELAY_MIN = 2
    /\ outcomes = <<"raised", "raised", "raised">>
    /\ sleeps = <<2, 4>>
    /\ request_pc = "returned"

\* make_request is called with cache_key = key
Lookup(key) ==
    /\ request_pc \in {"idle", "returned"}
    /\ clock' = clock
    /\ cache_key' = key

\* C20: a body fetched with status 200 is stored under the key; a lookup of the
\* key while the entry is younger than the TTL returns the stored body without a
\* fetch, whatever the body; a lookup when the entry's age is the TTL or more finds
\* nothing, deletes the entry and fetches anew.
C20_CacheWithinTtl ==
    /\ [][(request_pc = "awaiting" /\ outcomes' = Append(outcomes, "200")
              /\ cache_key # NO_KEY)
          => cache'[cache_key] = [value |-> returned', timestamp |-> clock]]_vars
    /\ [][\A key \in CacheKeys :
            (Lookup(key) /\ cache[key] # None) =>
                IF clock - cache[key].timestamp < ttl_seconds
                THEN /\ request_pc' = "returned"
                     /\ returned' = cache[key].value
                     /\ cache' = cache
                ELSE /\ cache'[key] = None
                     /\ fetch_config.RETRY_ATTEMPTS > 0 => request_pc' = "awaiting"]_vars

\* C21: the cache keeps an entry for CACHE_TTL: a lookup of a key whose entry holds
\* a body is served from the cache exactly when the entry is younger than the
\* CACHE_TTL of the configuration.
C21_TtlFromConfig ==
    [][\A key \in CacheKeys :
          (Lookup(key) /\ cache[key] # None /\ Truthy(cache[key].value)) =>
              ((request_pc' = "returned" /\ returned' = cache[key].value /\ cache' = cache)
                  <=> clock - cache[key].timestamp < fetch_config.CACHE_TTL)]_vars

(***************************************************************************)
(* Input validation.                                                       *)
(***************************************************************************)
\* the line is fourteen digits and nothing else
FourteenDigits(line) ==
    /\ Len(line) = 14
    /\ \A k \in 1..14 : line[k] \in {"0", "1", "2", "3", "4", "5", "6", "7", "8", "9"}

\* C22: a line of the input file that is not fourteen digits is not counted in
\* total, gets no process_single (and so no provider or page call), and is written
\* to none of the result, done and error files.
C22_InvalidLinesExcluded ==
    /\ dashboard.total =
          Cardinality({k \in 1..Len(input_file) : FourteenDigits(input_file[k])})
    /\ \A k \in 1..Len(input_file) :
          ~FourteenDigits(input_file[k]) =>
              /\ input_file[k] \notin Range(cnpjs)
              /\ input_file[k] \notin Range(pending_cnpjs)
              /\ input_file[k] \notin RunDone \cup RunFailed \cup RunResults

\* a run on a malformed line and a CNPJ has ended: one was counted, one is done
C22_Witness ==
    /\ run_pc = "finished"
    /\ BAD_LINE \in Range(input_file)
    /\ dashboard.total = 1
    /\ CNPJ_B \in RunDone

(***************************************************************************)
(* Enrichment, as scrape_cnpj decides on it.                               *)
(***************************************************************************)
\* the field holds a value: it is neither empty, nor white space, nor "N/A"
Present(x) == HasText(x) /\ x # NOT_AVAILABLE

\* a pass of the page extraction has just been made
PageExtractionCalled ==
    /\ calls' # calls
    /\ calls'[Len(calls')].source = "Web Scraping"

\* C23: the page extraction is called only for a field that is empty or "N/A"
\* after the fallback chain; when the chain leaves the phone and the e-mail both
\* present, the resolution goes on to its end without any page extraction.
C23_EnrichmentOnlyIfMissing ==
    /\ [][PageExtractionCalled =>
              /\ scrape_pc \in {"web_phone", "web_email"}
              /\ ~Present(data[calls'[Len(calls')].field])]_vars
    /\ [][(scrape_pc = "contact_check" /\ Present(data.telefone) /\ Present(data.email))
          => (scrape_pc' = "validation" /\ calls' = calls)]_vars

\* the page extraction is enabled, a provider gave the phone and the e-mail, and
\* the resolution returned without a page extraction
C23_Witness ==
    /\ scrape_pc = "returned"
    /\ api_config.ENABLE_ADDITIONAL_SCRAPING
    /\ data.telefone = PHONE
    /\ data.email = EMAIL
    /\ \A i \in 1..Len(calls) : calls[i].source # "Web Scraping"

(***************************************************************************)
(* A provider without an answer.                                           *)
(***************************************************************************)
\* scrape_cnpj is still in its fallback chain
InChain == scrape_pc \in {"cnpja", "brasil_api", "receita_ws", "cnpj_ws", "minha_receita"}

\* the enabled providers that come after `source` in the chain
EnabledAfter(source) ==
    {p \in Range(Providers) : Enabled(p) /\ ProviderIndex(p) > ProviderIndex(source)}

FragmentMerged ==
    \E i \in ProviderCalls :
        \/ calls[i].outcome = "complete"
        \/ calls[i].source = "ReceitaWS" /\ calls[i].outcome = "incomplete"

\* C30, as stated: every record block of the result file has a MEI line that
\* reads Sim or Nao.
C30_MeiSimOrNao ==
    \A k \in 1..Len(result_text) : result_text[k].MEI \in {SIM, NAO}

\* C30, amended: the MEI line of a record block reads Sim, Nao or "?", and it
\* reads "?" exactly when no provider's fragment was merged into the record.
C30_MeiSimNaoOrUnknown ==
    \A k \in 1..Len(result_text) :
        /\ result_text[k].MEI \in {SIM, NAO, MEI_UNKNOWN}
        /\ result_text[k].MEI = MEI_UNKNOWN <=> ~FragmentMerged

\* two providers were called and had no answer, no other is enabled, and the
\* block was saved with an undetermined MEI
C30_Witness ==
    /\ scrape_pc = "saved"
    /\ Len(result_text) = 1
    /\ result_text[1].MEI = MEI_UNKNOWN
    /\ Cardinality(ProviderCalls) = 2
    /\ \A i \in ProviderCalls : calls[i].outcome = "miss"

(***************************************************************************)
(* One pass of scrape_cnpj_sites.                                          *)
(***************************************************************************)
\* page.goto has just been called for u
LoadStarted(u) == loads'[u] = loads[u] + 1

\* C24: once every field the pass looks for has been found, page.goto is called
\* for no URL any more.
C24_NoLoadOnceAllFound ==
    [][\A u \in urls : LoadStarted(u) => ~FoundAll(out)]_vars

\* C25: in one pass out["tel"] and out["email"] are each assigned at most once,
\* however the URLs' tasks interleave: a value that was set is the value the pass
\* ends with, whatever the pages loaded later show.
C25_FieldAssignedOnce ==
    /\ [](assigned.tel <= 1 /\ assigned.email <= 1)
    /\ [][/\ out.tel # "" => out'.tel = out.tel
          /\ out.email # "" => out'.email = out.email]_vars

\* the pass looked for both fields, the first URL gave the phone and the second
\* the e-mail, and pages loaded later showed a phone and an e-mail again
C25_Witness ==
    /\ sites_pc = "returned"
    /\ out = [tel |-> PagePhone[1], email |-> PageEmail[2]]
    /\ refused = [tel |-> TRUE, email |-> TRUE]
    /\ assigned = [tel |-> 1, email |-> 1]

\* C26: page.goto is called at most WEB_SCRAPING_MAX_RETRIES times for a URL,
\* and it is called again for a URL only after the URL's last load has failed
\* and after a sleep of attempt + 1 seconds, attempt being the failed one.
C26_ReloadOnlyAfterFailure ==
    /\ [](\A u \in urls : loads[u] <= WEB_SCRAPING_MAX_RETRIES)
    /\ [][\A u \in urls :
             (LoadStarted(u) /\ loads[u] >= 1)
             => (last_load[u] = "failed" /\ sleeping[u] = (url_attempt[u] - 1) + 1)]_vars

(***************************************************************************)
(* The start of the process and its exit status.                           *)
(***************************************************************************)
\* a numeric option is out of its bound: a size, a rate, a time to live or a
\* timeout that is not positive, or a negative number of attempts
NumericBoundInvalid ==
    \/ env.BATCH_SIZE <= 0
    \/ env.MAX_CONCURRENCY <= 0
    \/ env.REQUESTS_PER_SECOND <= 0
    \/ env.RETRY_ATTEMPTS < 0
    \/ env.CACHE_TTL <= 0
    \/ env.CONNECTION_TIMEOUT <= 0
    \/ env.REQUEST_TIMEOUT <= 0

\* the five providers and the page extraction are all disabled
AllDisabled ==
    /\ \A p \in Range(Providers) :
          ~(CASE p = "CNPJa" -> env.CNPJA_ENABLED
              [] p = "BrasilAPI" -> env.BRASIL_API_ENABLED
              [] p = "ReceitaWS" -> env.RECEITA_WS_ENABLED
              [] p = "CNPJ.ws" -> env.CNPJ_WS_ENABLED
              [] p = "Minha Receita" -> env.MINHA_RECEITA_ENABLED)
    /\ ~env.ENABLE_ADDITIONAL_SCRAPING

\* C28: under an environment with a numeric option out of its bound, or with the
\* five providers and the page extraction all disabled, the only step the
\* process takes is its exit with status 1: no file is created, no input is
\* loaded, no CNPJ is processed.
C28_InvalidConfigFailsFirst ==
    /\ []((NumericBoundInvalid \/ AllDisabled) =>
            /\ start_pc \in {"load_config", "exited"}
            /\ start_pc = "exited" => exit_status = <<1>>
            /\ cnpjs = <<>> /\ pending_cnpjs = <<>> /\ run_pc = "init")
    /\ [][(NumericBoundInvalid \/ AllDisabled) =>
            /\ exists' = exists
            /\ <<result_file', done_file', error_file'>> = <<result_file, done_file, error_file>>
            /\ task_pc' = task_pc]_vars

\* a first run with every number in its bound and everything disabled has
\* exited with status 1 and has left no file
C28_Witness ==
    /\ start_pc = "exited"
    /\ exit_status = <<1>>
    /\ ~NumericBoundInvalid
    /\ AllDisabled
    /\ exists = {}
    /\ cnpjs = <<>>

\* run left its loop by `break`, with batches still to do
StoppedByFlag ==
    /\ run_pc = "finished"
    /\ dashboard.terminate_requested
    /\ batch_start <= Len(pending_cnpjs)

\* C29: a run that the cancellation flag stopped does not exit with the status
\* of a run that went through all its batches, which is 0.
C29_ExitStatusTellsCancellation ==
    (start_pc = "exited" /\ run_pc = "finished") => (exit_status = <<0>> <=> ~StoppedByFlag)

(***************************************************************************)
(* The TEL line of a record block.                                         *)
(***************************************************************************)
OnlyDigits(number) == \A k \in 1..Len(number) : number[k] \in DIGITS

\* "(DD) NNNNN-NNNN"
MobileForm(digits) ==
    <<"(", digits[1], digits[2], ")", " ", digits[3], digits[4], digits[5], digits[6],
      digits[7], "-", digits[8], digits[9], digits[10], digits[11]>>

\* C31: a phone of 11 digits is written in the mobile form "(DD) NNNNN-NNNN", and
\* a phone made of 55 and 11 digits is written in the mobile form of those 11.
C31_MobileForm ==
    \A k \in 1..Len(result_text) :
        LET number == data.telefone
        IN  /\ (OnlyDigits(number) /\ Len(number) = 11)
                  => result_text[k].TEL = MobileForm(number)
            /\ (OnlyDigits(number) /\ Len(number) = 13 /\ SubSeq(number, 1, 2) = <<"5", "5">>)
                  => result_text[k].TEL = MobileForm(SubSeq(number, 3, 13))

\* 5511987654321 was saved as (11) 98765-4321
C31_Witness ==
    /\ scrape_pc = "saved"
    /\ data.telefone = <<"5", "5", "1", "1", "9", "8", "7", "6", "5", "4", "3", "2", "1">>
    /\ Len(result_text) = 1
    /\ result_text[1].TEL = <<"(", "1", "1", ")", " ", "9", "8", "7", "6", "5", "-",
                              "4", "3", "2", "1">>

(***************************************************************************)
(* The batches of a run.                                                   *)
(***************************************************************************)
\* the batch the loop of run puts position t of the pending list in, from 0
BatchIndex(t) == (t - 1) \div config.BATCH_SIZE

\* C32: the batches run one after another: as long as a process_single of a
\* batch has not returned (with its CNPJ done, failed or skipped, or because of
\* the flag), no process_single of a later batch exists, let alone is admitted.
C32_BatchesInSequence ==
    \A t, u \in Tasks :
        (BatchIndex(u) < BatchIndex(t) /\ task_pc[t] # "pending") => task_pc[u] \in Returned

\* batches of two: the third CNPJ is being resolved after the first was done and
\* the second had failed
C32_Witness ==
    /\ config.BATCH_SIZE = 2
    /\ Len(pending_cnpjs) = 3
    /\ task_pc = <<"finished", "failed", "scraping">>

(***************************************************************************)
(* What a pass of scrape_cnpj_sites reports.                               *)
(***************************************************************************)
\* the keys of the dictionary a pass has returned, none before it returns or
\* when it returns None
Reported == IF sites_result = None THEN {} ELSE DOMAIN sites_result

\* C33: a pass over the sites reports only the fields it was asked to look for:
\* a field it was not asked for is never taken from a page, and the dictionary
\* it returns has no key for it. scrape_cnpj asks for the phone only when the
\* phone is missing and for the e-mail only when the e-mail is missing, so a
\* pass has nothing to put in place of a field the providers supplied.
C33_OnlyAskedFieldsReported ==
    /\ ~look_for.phone => (out.tel = "" /\ "telefone" \notin Reported)
    /\ ~look_for.email => (out.email = "" /\ "email" \notin Reported)

\* a phone-only pass has returned the phone of the first URL and nothing else
C33_Witness ==
    /\ sites_pc = "returned"
    /\ look_for = [phone |-> TRUE, email |-> FALSE]
    /\ \E u \in urls : loads[u] > 0
    /\ sites_result = [k \in {"telefone"} |-> PagePhone[1]]

(***************************************************************************)
(* How often a CNPJ is resolved in a run.                                  *)
(***************************************************************************)
\* the lines of a file written in this run that hold the CNPJ c
LinesOf(file, from, c) == {k \in (from + 1)..Len(file) : file[k] = c}

\* C34: in one run a CNPJ gets at most one block in the result file and at most
\* one line in the done file, also when the input file holds it several times.
C34_ResolvedAtMostOnce ==
    \A t \in Tasks :
        /\ Cardinality(LinesOf(result_file, run_start.results, pending_cnpjs[t])) <= 1
        /\ Cardinality(LinesOf(done_file, run_start.done, pending_cnpjs[t])) <= 1

(***************************************************************************)
(* The result file and the checkpoint.                                     *)
(***************************************************************************)
\* C35: a CNPJ added to completed_cnpjs in this run has its block in the result
\* file, and the done file never has more lines of this run for a CNPJ than the
\* result file has blocks for it: save_result comes before mark_done, and a
\* process_single that raised before its block was written marks nothing done.
C35_BlockBeforeCheckpoint ==
    /\ \A c \in completed_cnpjs \ run_start.completed : c \in RunResults
    /\ \A c \in RunDone :
           Cardinality(LinesOf(done_file, run_start.done, c))
               <= Cardinality(LinesOf(result_file, run_start.results, c))

\* the first CNPJ has its block and its checkpoint line, the second raised in
\* scrape_cnpj and has neither
C35_Witness ==
    /\ Len(pending_cnpjs) = 2
    /\ task_pc = <<"finished", "failed">>
    /\ pending_cnpjs[1] \in RunResults \cap RunDone
    /\ pending_cnpjs[1] \in completed_cnpjs \ run_start.completed
    /\ pending_cnpjs[2] \notin RunResults \cup completed_cnpjs

(***************************************************************************)
(* The in_progress counter of the dashboard.                               *)
(***************************************************************************)
\* the process_single that were admitted and have neither marked their CNPJ done
\* nor marked it failed
BeingResolved == {t \in Tasks : task_pc[t] = "scraping"}

\* C36: dashboard.in_progress is the number of CNPJs between their admission and
\* their outcome; it is never negative and never above MAX_CONCURRENCY, and it
\* is 0 whenever no batch is being gathered, whether the process_single of the
\* batch saved their CNPJ, raised, or skipped a CNPJ already completed.
C36_InProgressCounted ==
    /\ dashboard.in_progress = Cardinality(BeingResolved)
    /\ dashboard.in_progress >= 0
    /\ dashboard.in_progress <= config.MAX_CONCURRENCY
    /\ run_pc # "gather" => dashboard.in_progress = 0

\* a batch of a CNPJ on two lines has finished, saved by the first process_single
\* and skipped by the second, and the one of the next batch has raised
C36_Witness ==
    /\ Len(pending_cnpjs) = 3
    /\ task_pc = <<"finished", "skipped", "failed">>
    /\ run_pc # "gather"
    /\ dashboard.in_progress = 0

(***************************************************************************)
(* The counters of the dashboard at the end of a run.                      *)
(***************************************************************************)
\* C37: when run has gone through every batch and the flag was never set, the
\* counters of the dashboard add up: done + errors = total.
C37_CountersAddUp ==
    (run_pc = "finished" /\ ~dashboard.terminate_requested)
        => dashboard.done + dashboard.errors = dashboard.total

\* the same for the runs that started with no CNPJ of the input file completed
C37_CountersAddUpFromScratch ==
    (run_pc = "finished" /\ ~dashboard.terminate_requested
                         /\ Len(pending_cnpjs) = Len(cnpjs))
        => dashboard.done + dashboard.errors = dashboard.total

(***************************************************************************)
(* The name of the record and the name it is looked up by.                 *)
(***************************************************************************)
\* the answers of the providers that carry the name the record has
NamedLikeRecord ==
    UNION {{payload \in Payloads(k) : payload.nome = data.nome_empresa} :
               k \in 1..Len(Providers)}

\* C38: when the record scrape_cnpj returns has a name, its nome_api_puxada was
\* built from the answer that gave the name (every provider answers with a name
\* and a city of its own).
C38_SlugFromNameFragment ==
    (scrape_pc \in {"returned", "saved"} /\ data.nome_empresa # <<>>)
        => \E payload \in NamedLikeRecord : data.nome_api_puxada = NomeApiPuxada(payload)

\* the same for the runs in which ReceitaWS gave no partial answer
C38_SlugFromNameFragmentOfCompleteAnswers ==
    (\A i \in 1..Len(calls) : TagOf(calls[i]) # "ReceitaWS (partial)")
        => C38_SlugFromNameFragment

(***************************************************************************)
(* The attempts of a request under a validated configuration.              *)
(***************************************************************************)
\* `if config['RETRY_ATTEMPTS'] < 0: errors.append(...)`: the value is accepted
RetryAttemptsAccepted == ~(fetch_config.RETRY_ATTEMPTS < 0)

\* make_request has returned None: the cache had nothing for the key
ReturnedMiss == request_pc = "returned" /\ returned = None

\* C39: with a RETRY_ATTEMPTS that _validate_config accepts, make_request does
\* not return None for a key the cache has nothing for before it has made at
\* least one attempt on the network.
C39_AttemptBeforeMiss ==
    (RetryAttemptsAccepted /\ ReturnedMiss) => Len(outcomes) >= 1

\* the same for the configurations with RETRY_ATTEMPTS of 1 or more
C39_AttemptBeforeMissWithRetries ==
    (fetch_config.RETRY_ATTEMPTS >= 1 /\ ReturnedMiss) => Len(outcomes) >= 1

=============================================================================
